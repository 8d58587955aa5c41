-------------------------- MODULE ReplayGuardProofs --------------------------
(***************************************************************************)
(* Proofs about ReplayGuard for every window, cap, clock and message set.  *)
(*                                                                         *)
(* The inductive invariant says of the two copies of the record, the one   *)
(* in memory and the one on disk, that each answers for every message      *)
(* whose record was saved.  Pruning keeps that up: an entry it drops has   *)
(* either left the window by more than the clock can be set back, or makes *)
(* room for MaxTracked entries at least as recent.                         *)
(***************************************************************************)
EXTENDS ReplayGuard, FiniteSetTheorems, TLAPS

-----------------------------------------------------------------------------
(* Facts about pruning.                                                    *)

(* Pruning only removes entries, and leaves at most the cap. *)
LEMMA PruneBounds ==
    ASSUME NEW S \in SUBSET Message, NEW t \in Nat, NEW K \in Prune(S, t)
    PROVE  /\ K \subseteq S
           /\ Cardinality(K) <= MaxTracked
<1>1. Live(S, t) \subseteq S
  BY DEF Live
<1>2. CASE Cardinality(Live(S, t)) <= MaxTracked
  BY <1>1, <1>2 DEF Prune
<1>3. CASE ~(Cardinality(Live(S, t)) <= MaxTracked)
  <2>1. K \in Newest(Live(S, t))
    BY <1>3 DEF Prune
  <2>2. K \subseteq Live(S, t) /\ Cardinality(K) = MaxTracked
    BY <2>1 DEF Newest
  <2> QED
    BY <1>1, <2>2, MaxTrackedAssumption
<1> QED
  BY <1>2, <1>3

(* An entry is dropped because it is older than the horizon, or because    *)
(* MaxTracked entries at least as recent are kept.                         *)
LEMMA PruneDrops ==
    ASSUME NEW S \in SUBSET Message, NEW t \in Nat, NEW K \in Prune(S, t),
           NEW d \in S, d \notin K
    PROVE  \/ d.ts < t - MaxAge - MaxSkew
           \/ Cardinality(K) = MaxTracked /\ \A k \in K : k.ts >= d.ts
<1>1. CASE d \notin Live(S, t)
  <2>1. ~(d.ts >= t - MaxAge - MaxSkew)
    BY <1>1 DEF Live
  <2>2. d.ts \in Nat
    BY MessageAssumption
  <2> QED
    BY <2>1, <2>2, WindowAssumption
<1>2. CASE d \in Live(S, t)
  <2>1. K # Live(S, t)
    BY <1>2
  <2>2. K \in Newest(Live(S, t))
    BY <2>1 DEF Prune
  <2> QED
    BY <1>2, <2>2 DEF Newest
<1> QED
  BY <1>1, <1>2

(* MaxTracked entries that are at least as recent as ts, and one more,     *)
(* exceed the cap.                                                         *)
LEMMA OneMoreThanTheCap ==
    ASSUME NEW R \in SUBSET Message, NEW K \in SUBSET R, NEW d \in R, NEW ts \in Nat,
           d \notin K, d.ts >= ts, Cardinality(K) = MaxTracked,
           \A k \in K : k.ts >= ts
    PROVE  Cardinality({r \in R : r.ts >= ts}) > MaxTracked
<1> DEFINE Recent == {r \in R : r.ts >= ts}
<1>1. IsFiniteSet(Recent)
  BY MessageAssumption, FS_Subset, Recent \subseteq Message
<1>2. K \cup {d} \subseteq Recent
  OBVIOUS
<1>3. IsFiniteSet(K) /\ IsFiniteSet(K \cup {d})
  BY <1>1, <1>2, FS_Subset, K \subseteq Recent
<1>4. Cardinality(K \cup {d}) = MaxTracked + 1
  BY <1>3, FS_AddElement
<1>5. Cardinality(K \cup {d}) <= Cardinality(Recent)
  BY <1>1, <1>2, FS_Subset
<1>6. Cardinality(Recent) \in Nat
  BY <1>1, FS_CardinalityType
<1> QED
  BY <1>4, <1>5, <1>6, MaxTrackedAssumption

(* Recording more messages never makes a crowd smaller. *)
LEMMA CrowdGrows ==
    ASSUME NEW R \in SUBSET Message, NEW Q \in SUBSET Message, R \subseteq Q,
           NEW ts \in Nat,
           Cardinality({r \in R : r.ts >= ts}) > MaxTracked
    PROVE  Cardinality({r \in Q : r.ts >= ts}) > MaxTracked
<1> DEFINE A == {r \in R : r.ts >= ts}
           B == {r \in Q : r.ts >= ts}
<1>1. IsFiniteSet(B)
  BY MessageAssumption, FS_Subset, B \subseteq Message
<1>2. A \subseteq B
  OBVIOUS
<1>3. IsFiniteSet(A) /\ Cardinality(A) <= Cardinality(B)
  BY <1>1, <1>2, FS_Subset
<1>4. Cardinality(A) \in Nat /\ Cardinality(B) \in Nat
  BY <1>1, <1>3, FS_CardinalityType
<1> QED
  BY <1>3, <1>4, MaxTrackedAssumption

(* What answered for a message before pruning answers for it afterwards,   *)
(* or the message is out of the window, or the cap was exceeded.           *)
LEMMA PruneAnswers ==
    ASSUME NEW S \in SUBSET Message, NEW t \in Nat, NEW K \in Prune(S, t),
           NEW h \in Nat, t <= h,
           NEW R \in SUBSET Message, S \subseteq R,
           NEW m \in Message,
           \E r \in S : r.id = m.id /\ r.ts >= m.ts
    PROVE  \/ \E r \in K : r.id = m.id /\ r.ts >= m.ts
           \/ m.ts < h - MaxAge - MaxSkew
           \/ Cardinality({r \in R : r.ts >= m.ts}) > MaxTracked
<1>1. PICK d \in S : d.id = m.id /\ d.ts >= m.ts
  OBVIOUS
<1>2. CASE d \in K
  BY <1>1, <1>2
<1>3. CASE d \notin K /\ d.ts < t - MaxAge - MaxSkew
  <2>1. m.ts \in Nat /\ d.ts \in Nat
    BY MessageAssumption
  <2> QED
    BY <1>1, <1>3, <2>1, WindowAssumption
<1>4. CASE d \notin K /\ Cardinality(K) = MaxTracked /\ \A k \in K : k.ts >= d.ts
  <2>1. K \subseteq R
    BY PruneBounds
  <2>2. m.ts \in Nat /\ d.ts \in Nat /\ \A k \in K : k.ts \in Nat
    BY <2>1, MessageAssumption
  <2>3. \A k \in K : k.ts >= m.ts
    BY <1>1, <1>4, <2>2
  <2> QED
    BY <1>1, <1>4, <2>1, <2>2, <2>3, OneMoreThanTheCap
<1> QED
  BY <1>2, <1>3, <1>4, PruneDrops

-----------------------------------------------------------------------------
(* The inductive invariant.                                                *)

ClockOK == now <= high /\ high - ClockBack <= now

HistoryOK ==
    /\ delivered \subseteq saved
    /\ saved \subseteq recorded
    /\ seen \subseteq recorded
    /\ disk = "intact" => file \subseteq recorded

(* What the message in hand has passed so far. *)
InHandOK ==
    /\ pc = "opening" => Unseen(msg.id, seen)
    /\ pc = "saving" => msg \in recorded /\ Answers(seen, msg)
    /\ pc = "delivering" => msg \in saved
    /\ pc \in {"opening", "saving"} /\ msg \in saved => Crowded(msg.ts)
    /\ pc = "delivering" /\ msg \in delivered => Crowded(msg.ts)

MemoryAnswers == pc # "down" => \A m \in saved : Answers(seen, m)
FileAnswers == disk = "intact" => \A m \in saved : Answers(file, m)

Inv ==
    /\ TypeOK
    /\ ClockOK
    /\ HistoryOK
    /\ InHandOK
    /\ MemoryAnswers
    /\ FileAnswers
    /\ BoundedRecord

(* An answer stays one while the clock's highest reading and the set of    *)
(* recorded messages grow.                                                 *)
LEMMA AnswersPersist ==
    ASSUME TypeOK, NEW S \in SUBSET Message, NEW m \in Message, Answers(S, m),
           high' \in Nat, high <= high',
           recorded \subseteq recorded', recorded' \in SUBSET Message
    PROVE  Answers(S, m)'
<1>1. m.ts \in Nat /\ high \in Nat
  BY MessageAssumption, TimesAssumption DEF TypeOK
<1>2. CASE \E r \in S : r.id = m.id /\ r.ts >= m.ts
  BY <1>2 DEF Answers
<1>3. CASE m.ts < high - MaxAge - MaxSkew
  <2>1. m.ts < high' - MaxAge - MaxSkew
    BY <1>1, <1>3, WindowAssumption
  <2> QED
    BY <2>1 DEF Answers
<1>4. CASE Crowded(m.ts)
  <2>1. recorded \in SUBSET Message
    BY DEF TypeOK
  <2>2. Crowded(m.ts)'
    BY <1>1, <1>4, <2>1, CrowdGrows DEF Crowded
  <2> QED
    BY <2>2 DEF Answers
<1> QED
  BY <1>2, <1>3, <1>4 DEF Answers

(* A fresh message that is answered for but unseen was crowded out: the    *)
(* clock is never so far back that an expired message is fresh again.      *)
LEMMA FreshUnseenIsCrowded ==
    ASSUME TypeOK, ClockOK, NEW m \in Message,
           Answers(seen, m), Fresh(m.ts, now), Unseen(m.id, seen)
    PROVE  Crowded(m.ts)
<1>1. ~ \E r \in seen : r.id = m.id /\ r.ts >= m.ts
  BY DEF Unseen
<1>2. ~(m.ts < high - MaxAge - MaxSkew)
  <2>1. m.ts \in Nat /\ high \in Nat /\ now \in Nat
    BY MessageAssumption, TimesAssumption DEF TypeOK
  <2>2. now - m.ts <= MaxAge /\ high - ClockBack <= now
    BY DEF Fresh, ClockOK
  <2> QED
    BY <2>1, <2>2, WindowAssumption, ClockBackAssumption
<1> QED
  BY <1>1, <1>2 DEF Answers

-----------------------------------------------------------------------------
(* Type correctness, established first: no other conjunct is needed.       *)

(* The initial values have their types. *)
LEMMA TypeInit == Init => TypeOK
BY FS_EmptySet DEF Init, TypeOK

(* Every step keeps the types, by itself: no other conjunct is needed. *)
LEMMA TypeStep == TypeOK /\ [Next]_vars => TypeOK'
<1> SUFFICES ASSUME TypeOK, [Next]_vars PROVE TypeOK'
  OBVIOUS
<1> USE DEF TypeOK
<1>1. CASE Tick
  BY <1>1 DEF Tick
<1>2. ASSUME NEW m \in Message, Check(m) PROVE TypeOK'
  BY <1>2 DEF Check
<1>3. CASE Refuse
  BY <1>3 DEF Refuse
<1>4. CASE Record
  <2>1. msg \in Message /\ pc' = "saving" /\ msg' = msg
    BY <1>4 DEF Record
  <2>2. Remember(seen, msg) \in SUBSET Message
    BY <2>1 DEF Remember
  <2>3. now \in Nat
    BY TimesAssumption
  <2>4. seen' \in SUBSET Message
    <3>1. seen' \in Prune(Remember(seen, msg), now)
      BY <1>4 DEF Record
    <3>2. seen' \subseteq Remember(seen, msg)
      BY <2>2, <2>3, <3>1, PruneBounds
    <3> QED
      BY <2>2, <3>2
  <2> QED
    BY <1>4, <2>1, <2>4 DEF Record
<1>5. CASE Save
  BY <1>5 DEF Save
<1>6. CASE Deliver
  BY <1>6 DEF Deliver
<1>7. CASE WriteFails
  BY <1>7 DEF WriteFails
<1>8. CASE Crash
  BY <1>8 DEF Crash
<1>9. CASE Damage
  BY <1>9 DEF Damage
<1>10. CASE Restart
  <2>1. now \in Nat
    BY TimesAssumption
  <2>2. seen' \in SUBSET Message
    <3>1. CASE disk = "corrupt"
      BY <1>10, <3>1 DEF Restart
    <3>2. CASE disk = "intact"
      <4>1. seen' \in Prune(file, now)
        BY <1>10, <3>2 DEF Restart
      <4>2. seen' \subseteq file
        BY <2>1, <4>1, PruneBounds
      <4> QED
        BY <4>2
    <3> QED
      BY <3>1, <3>2
  <2> QED
    BY <1>10, <2>2 DEF Restart
<1>11. CASE UNCHANGED vars
  BY <1>11 DEF vars
<1> QED
  BY <1>1, <1>2, <1>3, <1>4, <1>5, <1>6, <1>7, <1>8, <1>9, <1>10, <1>11 DEF Next

(* Every variable of the guard always has its type, for every window, cap, *)
(* clock and set of messages.                                              *)
THEOREM TypeCorrect == Spec => []TypeOK
BY TypeInit, TypeStep, PTL DEF Spec

-----------------------------------------------------------------------------
(* The inductive invariant: initially, and preserved by each action.       *)

(* Nothing is recorded yet, so there is nothing to answer for. *)
LEMMA InvInit == Init => Inv
<1> SUFFICES ASSUME Init PROVE Inv
  OBVIOUS
<1>1. TypeOK
  BY TypeInit
<1>2. ClockOK
  BY <1>1, TimesAssumption, ClockBackAssumption, WindowAssumption DEF Init, ClockOK, TypeOK
<1>3. BoundedRecord
  BY FS_EmptySet, MaxTrackedAssumption DEF Init, BoundedRecord
<1> QED
  BY <1>1, <1>2, <1>3 DEF Init, Inv, HistoryOK, InHandOK, MemoryAnswers, FileAnswers

(* Steps that leave the record, its copies and the history alone. *)
LEMMA QuietStep ==
    ASSUME Inv, TypeOK', UNCHANGED <<seen, file, disk, recorded, saved, delivered>>,
           high' = high, now' = now,
           \/ pc' = pc /\ msg' = msg
           \/ pc' = "idle" /\ pc # "down"
    PROVE  Inv'
<1> USE DEF Inv
<1>1. ClockOK'
  BY DEF ClockOK
<1>2. HistoryOK'
  BY DEF HistoryOK
<1>3. \A S \in SUBSET Message, m \in Message : Answers(S, m)' <=> Answers(S, m)
  BY DEF Answers, Crowded
<1>4. InHandOK'
  <2>1. CASE pc' = pc /\ msg' = msg
    BY <2>1 DEF InHandOK, Answers, Crowded, Unseen
  <2>2. CASE pc' = "idle"
    BY <2>2 DEF InHandOK
  <2> QED
    BY <2>1, <2>2
<1>5. MemoryAnswers' /\ FileAnswers'
  BY <1>3 DEF MemoryAnswers, FileAnswers, TypeOK
<1>6. BoundedRecord'
  BY DEF BoundedRecord
<1> QED
  BY <1>1, <1>2, <1>4, <1>5, <1>6

(* A clock step leaves the record alone, and what the old highest reading  *)
(* let go of stays out of the window.                                      *)
LEMMA TickStep == ASSUME Inv, TypeOK', Tick PROVE Inv'
<1> USE DEF Inv
<1>1. now \in Nat /\ high \in Nat /\ now' \in Nat /\ high' \in Nat
  BY TimesAssumption DEF TypeOK
<1>2. high <= high' /\ ClockOK'
  <2>1. \A n \in Nat : n - ClockBack <= n
    BY ClockBackAssumption, WindowAssumption
  <2> QED
    BY <1>1, <2>1 DEF Tick, ClockOK
<1>3. \A S \in SUBSET Message, m \in Message : Answers(S, m) => Answers(S, m)'
  BY <1>1, <1>2, AnswersPersist DEF Tick, TypeOK
<1>4. HistoryOK' /\ BoundedRecord'
  BY DEF Tick, HistoryOK, BoundedRecord
<1>5. InHandOK'
  <2>1. pc \notin {"idle", "down"} => msg \in Message
    BY DEF TypeOK
  <2>2. pc = "saving" => Answers(seen, msg)'
    <3> SUFFICES ASSUME pc = "saving" PROVE Answers(seen, msg)'
      OBVIOUS
    <3>1. msg \in Message /\ seen \in SUBSET Message /\ Answers(seen, msg)
      BY <2>1 DEF InHandOK, TypeOK
    <3> QED
      BY <1>3, <3>1 DEF Tick, Answers, Crowded
  <2> QED
    BY <2>2 DEF Tick, InHandOK, Answers, Crowded, Unseen
<1>6. MemoryAnswers' /\ FileAnswers'
  <2>1. UNCHANGED <<seen, file, disk, saved, pc>> /\ saved \in SUBSET Message
    BY DEF Tick, TypeOK
  <2>2. seen \in SUBSET Message /\ file \in SUBSET Message
    BY DEF TypeOK
  <2>3. \A m \in Message : Answers(seen, m) => Answers(seen, m)'
    BY <1>3, <2>1, <2>2
  <2>4. \A m \in Message : Answers(file, m) => Answers(file, m)'
    BY <1>3, <2>1, <2>2
  <2> QED
    BY <2>1, <2>3, <2>4 DEF MemoryAnswers, FileAnswers
<1> QED
  BY <1>2, <1>4, <1>5, <1>6

(* A message in hand was fresh and unseen when it was checked. *)
LEMMA CheckStep ==
    ASSUME Inv, TypeOK', NEW m \in Message, Check(m) PROVE Inv'
<1> USE DEF Inv
<1>1. UNCHANGED <<now, seen, file, disk, high, recorded, saved, delivered>>
      /\ pc = "idle" /\ pc' = "opening" /\ msg' = m
  BY DEF Check
<1>2. ClockOK' /\ HistoryOK' /\ BoundedRecord'
  BY <1>1 DEF ClockOK, HistoryOK, BoundedRecord
<1>3. MemoryAnswers' /\ FileAnswers'
  BY <1>1 DEF MemoryAnswers, FileAnswers, Answers, Crowded
<1>4. InHandOK'
  <2>1. Unseen(m.id, seen) /\ Fresh(m.ts, now)
    BY DEF Check
  <2>2. m \in saved => Crowded(m.ts)
    <3> SUFFICES ASSUME m \in saved PROVE Crowded(m.ts)
      OBVIOUS
    <3>1. Answers(seen, m)
      BY <1>1 DEF MemoryAnswers, HistoryOK
    <3> QED
      BY <2>1, <3>1, FreshUnseenIsCrowded
  <2> QED
    BY <1>1, <2>1, <2>2 DEF InHandOK, Crowded, Unseen
<1> QED
  BY <1>2, <1>3, <1>4

(* Recording adds the message in hand and prunes: the memory answers for it *)
(* too, and for whatever it answered for before.                            *)
LEMMA RecordStep == ASSUME Inv, TypeOK', Record PROVE Inv'
<1> USE DEF Inv
<1> DEFINE R == Remember(seen, msg)
<1>1. /\ pc = "opening" /\ pc' = "saving" /\ seen' \in Prune(R, now)
      /\ recorded' = recorded \cup {msg}
      /\ UNCHANGED <<now, file, disk, msg, high, saved, delivered>>
  BY DEF Record
<1>2. msg \in Message /\ now \in Nat /\ high \in Nat /\ now <= high
  BY <1>1, TimesAssumption DEF TypeOK, ClockOK
<1>3. R \in SUBSET Message /\ R = seen \cup {msg} /\ R \subseteq recorded'
  BY <1>1, <1>2 DEF Remember, Unseen, InHandOK, HistoryOK, TypeOK
<1>4. seen' \subseteq R /\ Cardinality(seen') <= MaxTracked
  BY <1>1, <1>2, <1>3, PruneBounds
<1>5. \A m \in Message :
        (\E r \in R : r.id = m.id /\ r.ts >= m.ts) => Answers(seen, m)'
  <2> SUFFICES ASSUME NEW m \in Message, \E r \in R : r.id = m.id /\ r.ts >= m.ts
               PROVE  Answers(seen, m)'
    OBVIOUS
  <2>1. recorded' \in SUBSET Message
    BY DEF TypeOK
  <2>2. \/ \E r \in seen' : r.id = m.id /\ r.ts >= m.ts
        \/ m.ts < high - MaxAge - MaxSkew
        \/ Cardinality({r \in recorded' : r.ts >= m.ts}) > MaxTracked
    <3>1. R \in SUBSET Message /\ R \subseteq recorded' /\ seen' \in Prune(R, now)
      BY <1>1, <1>3
    <3>2. \A S \in SUBSET Message : \A K \in Prune(S, now), Q \in SUBSET Message :
            S \subseteq Q /\ (\E r \in S : r.id = m.id /\ r.ts >= m.ts) =>
              \/ \E r \in K : r.id = m.id /\ r.ts >= m.ts
              \/ m.ts < high - MaxAge - MaxSkew
              \/ Cardinality({r \in Q : r.ts >= m.ts}) > MaxTracked
      BY <1>2, PruneAnswers
    <3> HIDE DEF R
    <3> QED
      BY <2>1, <3>1, <3>2
  <2> QED
    BY <1>1, <2>2 DEF Answers, Crowded
<1>5a. \A m \in Message : Crowded(m.ts) => Crowded(m.ts)'
  <2> SUFFICES ASSUME NEW m \in Message, Crowded(m.ts) PROVE Crowded(m.ts)'
    OBVIOUS
  <2>1. recorded \in SUBSET Message /\ recorded' \in SUBSET Message /\ m.ts \in Nat
    BY MessageAssumption DEF TypeOK
  <2> QED
    BY <1>1, <2>1, CrowdGrows DEF Crowded
<1>6. \A m \in Message : Answers(seen, m) => Answers(seen, m)'
  <2> SUFFICES ASSUME NEW m \in Message, Answers(seen, m) PROVE Answers(seen, m)'
    OBVIOUS
  <2>1. CASE \E r \in seen : r.id = m.id /\ r.ts >= m.ts
    BY <1>3, <1>5, <2>1
  <2>2. CASE m.ts < high - MaxAge - MaxSkew
    BY <1>1, <2>2 DEF Answers
  <2>3. CASE Crowded(m.ts)
    BY <1>5a, <2>3 DEF Answers
  <2> QED
    BY <2>1, <2>2, <2>3 DEF Answers
<1>7. ClockOK'
  BY <1>1 DEF ClockOK
<1>8. HistoryOK'
  BY <1>1, <1>3, <1>4 DEF HistoryOK
<1>9. InHandOK'
  <2>1. msg \in R /\ msg.ts \in Nat
    BY <1>2, <1>3, MessageAssumption
  <2>2. Answers(seen, msg)'
    <3>1. Answers(seen, msg)' <=> \E m \in Message : m = msg /\ Answers(seen, m)'
      BY <1>1, <1>2 DEF Answers, Crowded
    <3> QED
      BY <1>2, <1>5, <2>1, <3>1
  <2>3. msg \in saved => \E m \in Message : m = msg /\ Crowded(m.ts)'
    BY <1>1, <1>2, <1>5a DEF InHandOK
  <2>4. msg \in saved => Crowded(msg.ts)'
    BY <1>1, <2>3 DEF Crowded
  <2> QED
    BY <1>1, <2>2, <2>4 DEF InHandOK
<1>10. MemoryAnswers'
  BY <1>1, <1>6 DEF MemoryAnswers, HistoryOK, TypeOK
<1>11. FileAnswers'
  <2>1. \A m \in saved : Answers(file, m) => Answers(file, m)'
    BY <1>1, <1>5a DEF Answers, TypeOK
  <2> QED
    BY <1>1, <2>1 DEF FileAnswers
<1>12. BoundedRecord'
  BY <1>1, <1>4 DEF BoundedRecord
<1> QED
  BY <1>7, <1>8, <1>9, <1>10, <1>11, <1>12

(* Saving makes the file what the memory is, which answers for the message. *)
LEMMA SaveStep == ASSUME Inv, TypeOK', Save PROVE Inv'
<1> USE DEF Inv
<1>1. /\ pc = "saving" /\ pc' = "delivering" /\ file' = seen /\ disk' = "intact"
      /\ saved' = saved \cup {msg}
      /\ UNCHANGED <<now, seen, msg, high, recorded, delivered>>
  BY DEF Save
<1>2. msg \in Message
  BY <1>1 DEF TypeOK
<1>3. ClockOK' /\ HistoryOK' /\ BoundedRecord'
  BY <1>1 DEF ClockOK, HistoryOK, BoundedRecord, InHandOK
<1>4. \A m \in saved' : Answers(seen, m)
  BY <1>1 DEF MemoryAnswers, InHandOK
<1>5. \A m \in saved' : Answers(seen, m)' /\ Answers(file, m)'
  BY <1>1, <1>4 DEF Answers, Crowded
<1>6. MemoryAnswers' /\ FileAnswers'
  BY <1>1, <1>5 DEF MemoryAnswers, FileAnswers
<1>7. InHandOK'
  BY <1>1, <1>2 DEF InHandOK, HistoryOK, Crowded
<1> QED
  BY <1>3, <1>6, <1>7

(* What is written out was saved before. *)
LEMMA DeliverStep == ASSUME Inv, TypeOK', Deliver PROVE Inv'
<1> USE DEF Inv
<1>1. /\ pc = "delivering" /\ pc' = "idle" /\ delivered' = delivered \cup {msg}
      /\ UNCHANGED <<now, seen, file, disk, high, recorded, saved>>
  BY DEF Deliver
<1>2. ClockOK' /\ HistoryOK' /\ BoundedRecord' /\ InHandOK'
  BY <1>1 DEF ClockOK, HistoryOK, BoundedRecord, InHandOK
<1>3. MemoryAnswers' /\ FileAnswers'
  BY <1>1 DEF MemoryAnswers, FileAnswers, Answers, Crowded
<1> QED
  BY <1>2, <1>3

(* A crash loses the memory and the message in hand, never the file. *)
LEMMA CrashStep == ASSUME Inv, TypeOK', Crash PROVE Inv'
<1> USE DEF Inv
<1>1. /\ pc' = "down" /\ seen' = {}
      /\ UNCHANGED <<now, file, disk, high, recorded, saved, delivered>>
  BY DEF Crash
<1>2. BoundedRecord'
  BY <1>1, FS_EmptySet, MaxTrackedAssumption DEF BoundedRecord
<1>3. ClockOK' /\ HistoryOK' /\ InHandOK' /\ MemoryAnswers'
  BY <1>1 DEF ClockOK, HistoryOK, InHandOK, MemoryAnswers
<1>4. FileAnswers'
  BY <1>1 DEF FileAnswers, Answers, Crowded
<1> QED
  BY <1>2, <1>3, <1>4

(* A damaged file answers for nothing, which the invariant does not ask. *)
LEMMA DamageStep == ASSUME Inv, TypeOK', Damage PROVE Inv'
<1> USE DEF Inv
<1>1. /\ disk' = "corrupt"
      /\ UNCHANGED <<now, seen, file, pc, msg, high, recorded, saved, delivered>>
  BY DEF Damage
<1>2. ClockOK' /\ HistoryOK' /\ BoundedRecord' /\ FileAnswers'
  BY <1>1 DEF ClockOK, HistoryOK, BoundedRecord, FileAnswers
<1>3. InHandOK' /\ MemoryAnswers'
  BY <1>1 DEF InHandOK, MemoryAnswers, Answers, Crowded, Unseen
<1> QED
  BY <1>2, <1>3

(* A start from the file prunes it, and the memory answers for what the    *)
(* file answered for; a start from a damaged file has nothing to remember. *)
LEMMA RestartStep == ASSUME Inv, TypeOK', Restart PROVE Inv'
<1> USE DEF Inv
<1>1. pc = "down" /\ pc' = "idle" /\ UNCHANGED <<now, file, disk, msg, high>>
  BY DEF Restart
<1>2. ClockOK' /\ InHandOK'
  BY <1>1 DEF ClockOK, InHandOK
<1>3. CASE disk = "intact"
  <2>1. seen' \in Prune(file, now) /\ UNCHANGED <<recorded, saved, delivered>>
    BY <1>3 DEF Restart
  <2>2. now \in Nat /\ high \in Nat /\ now <= high /\ file \in SUBSET Message
        /\ recorded \in SUBSET Message /\ file \subseteq recorded
    BY <1>3, TimesAssumption DEF TypeOK, ClockOK, HistoryOK
  <2>3. seen' \subseteq file /\ Cardinality(seen') <= MaxTracked
    BY <2>1, <2>2, PruneBounds
  <2>4. HistoryOK' /\ BoundedRecord'
    BY <1>1, <2>1, <2>2, <2>3 DEF HistoryOK, BoundedRecord
  <2>5. FileAnswers'
    BY <1>1, <2>1 DEF FileAnswers, Answers, Crowded
  <2>6. \A m \in saved : Answers(seen, m)'
    <3> SUFFICES ASSUME NEW m \in saved PROVE Answers(seen, m)'
      OBVIOUS
    <3>1. m \in Message /\ Answers(file, m)
      BY <1>3 DEF FileAnswers, TypeOK
    <3>2. CASE \E r \in file : r.id = m.id /\ r.ts >= m.ts
      BY <1>1, <2>1, <2>2, <3>1, <3>2, PruneAnswers DEF Answers, Crowded
    <3>3. CASE m.ts < high - MaxAge - MaxSkew \/ Crowded(m.ts)
      BY <1>1, <2>1, <3>3 DEF Answers, Crowded
    <3> QED
      BY <3>1, <3>2, <3>3 DEF Answers
  <2>7. MemoryAnswers'
    BY <2>1, <2>6 DEF MemoryAnswers
  <2> QED
    BY <1>2, <2>4, <2>5, <2>7
<1>4. CASE disk = "corrupt"
  <2>1. seen' = {} /\ recorded' = {} /\ saved' = {} /\ delivered' = {}
    BY <1>4 DEF Restart
  <2>2. HistoryOK' /\ MemoryAnswers' /\ FileAnswers'
    BY <1>1, <1>4, <2>1 DEF HistoryOK, MemoryAnswers, FileAnswers
  <2>3. BoundedRecord'
    BY <1>1, <2>1, FS_EmptySet, MaxTrackedAssumption DEF BoundedRecord
  <2> QED
    BY <1>2, <2>2, <2>3
<1> QED
  BY <1>3, <1>4 DEF TypeOK

(* Every step keeps the inductive invariant. *)
LEMMA InvStep == Inv /\ [Next]_vars => Inv'
<1> SUFFICES ASSUME Inv, [Next]_vars PROVE Inv'
  OBVIOUS
<1>1. TypeOK'
  BY TypeStep DEF Inv
<1>2. CASE Tick
  BY <1>1, <1>2, TickStep
<1>3. ASSUME NEW m \in Message, Check(m) PROVE Inv'
  BY <1>1, <1>3, CheckStep
<1>4. CASE Refuse
  BY <1>1, <1>4, QuietStep DEF Refuse
<1>5. CASE Record
  BY <1>1, <1>5, RecordStep
<1>6. CASE Save
  BY <1>1, <1>6, SaveStep
<1>7. CASE Deliver
  BY <1>1, <1>7, DeliverStep
<1>8. CASE WriteFails
  BY <1>1, <1>8, QuietStep DEF WriteFails
<1>9. CASE Crash
  BY <1>1, <1>9, CrashStep
<1>10. CASE Damage
  BY <1>1, <1>10, DamageStep
<1>11. CASE Restart
  BY <1>1, <1>11, RestartStep
<1>12. CASE UNCHANGED vars
  BY <1>1, <1>12, QuietStep DEF vars
<1> QED
  BY <1>2, <1>3, <1>4, <1>5, <1>6, <1>7, <1>8, <1>9, <1>10, <1>11, <1>12 DEF Next

(* The inductive invariant holds in every reachable state. *)
LEMMA InvHolds == Spec => []Inv
BY InvInit, InvStep, PTL DEF Spec

-----------------------------------------------------------------------------
(* No message is written out twice through crashes, failed writes,         *)
(* restarts, damaged files and clock steps, unless more than MaxTracked    *)
(* messages at least as recent were recorded (replay.py:9, receiver.py:133).*)
THEOREM AcceptedAtMostOnce == Spec => []AtMostOnce
<1>1. Inv => AtMostOnce
  BY DEF Inv, InHandOK, AtMostOnce
<1> QED
  BY <1>1, InvHolds, PTL

(* What is written out has its record on disk first, and the file keeps    *)
(* answering for it.                                                       *)
THEOREM RecordedBeforeDelivery == Spec => []DurableBeforeDelivery
<1>1. Inv => DurableBeforeDelivery
  BY DEF Inv, HistoryOK, InHandOK, FileAnswers, DurableBeforeDelivery
<1> QED
  BY <1>1, InvHolds, PTL

(* Neither copy of the record ever exceeds the cap (replay.py:12, 68).     *)
THEOREM RecordIsBounded == Spec => []BoundedRecord
<1>1. Inv => BoundedRecord
  BY DEF Inv
<1> QED
  BY <1>1, InvHolds, PTL

(* Where there are no more messages than the cap, nothing is crowded out.  *)
LEMMA RoomForAll ==
    ASSUME Cardinality(Message) <= MaxTracked, Inv, NEW ts
    PROVE  ~Crowded(ts)
<1> DEFINE Recent == {r \in recorded : r.ts >= ts}
<1>1. Recent \subseteq Message
  BY DEF Inv, TypeOK
<1>2. IsFiniteSet(Recent) /\ Cardinality(Recent) <= Cardinality(Message)
  BY <1>1, MessageAssumption, FS_Subset
<1>3. Cardinality(Recent) \in Nat /\ Cardinality(Message) \in Nat
  BY <1>2, MessageAssumption, FS_CardinalityType
<1> QED
  BY <1>2, <1>3, MaxTrackedAssumption DEF Crowded

(* There the docstring's claim (replay.py:9) holds without exception.      *)
THEOREM NothingTwiceBelowCap ==
    ASSUME Cardinality(Message) <= MaxTracked
    PROVE  Spec => []NothingProcessedTwice
<1>1. Inv => NothingProcessedTwice
  BY RoomForAll DEF Inv, InHandOK, NothingProcessedTwice
<1> QED
  BY <1>1, InvHolds, PTL

-----------------------------------------------------------------------------
(* The guard implements Acceptance when nothing is crowded out and the     *)
(* file is not damaged.                                                    *)

Intact == disk = "intact"

(* A function that differs from life in one message only is one Becomes. *)
LEMMA BecomesPointwise ==
    ASSUME NEW m \in Message, NEW from, NEW to,
           life[m] = from, life'[m] = to,
           \A x \in Message \ {m} : life'[x] = life[x]
    PROVE  Accept!Becomes(m, from, to)
<1>1. life' = [life EXCEPT ![m] = to]
  BY DEF life
<1> QED
  BY <1>1 DEF Accept!Becomes

(* Each step of the guard is a step of Acceptance or changes no life. *)
LEMMA AcceptStep ==
    ASSUME Cardinality(Message) <= MaxTracked, Inv, disk = "intact", ~DiskFaults,
           [Next]_vars
    PROVE  [Accept!Next]_life
<1> USE DEF Inv
<1>1. pc \notin {"idle", "down"} => msg \in Message
  BY DEF TypeOK
<1>2. ASSUME UNCHANGED <<saved, delivered>>,
             pc \notin {"saving", "delivering"}, pc' \notin {"saving", "delivering"}
      PROVE  UNCHANGED life
  BY <1>2 DEF life
<1>3. ASSUME pc \in {"saving", "delivering"}, pc' \in {"idle", "down"},
             UNCHANGED <<saved, delivered>>
      PROVE  Accept!Next
  <2>1. msg \in Message /\ msg \notin delivered /\ (msg \in saved <=> pc = "delivering")
    BY <1>1, <1>3, RoomForAll DEF InHandOK, HistoryOK
  <2>2. \A x \in Message \ {msg} : life'[x] = life[x]
    BY <1>3 DEF life
  <2>3. life[msg] = "claimed"
    BY <1>3, <2>1 DEF life
  <2>4. CASE pc = "saving"
    <3>1. life'[msg] = "new"
      BY <1>3, <2>1, <2>4 DEF life
    <3> QED
      BY <2>1, <2>2, <2>3, <3>1, BecomesPointwise DEF Accept!Next, Accept!Release
  <2>5. CASE pc = "delivering"
    <3>1. life'[msg] = "lost"
      BY <1>3, <2>1, <2>5 DEF life
    <3> QED
      BY <2>1, <2>2, <2>3, <3>1, BecomesPointwise DEF Accept!Next, Accept!Lose
  <2> QED
    BY <1>3, <2>4, <2>5
<1>4. CASE Tick \/ UNCHANGED vars
  BY <1>4 DEF Tick, vars, life
<1>5. ASSUME NEW m \in Message, Check(m) PROVE UNCHANGED life
  BY <1>2, <1>5 DEF Check
<1>6. CASE Refuse
  BY <1>2, <1>6 DEF Refuse
<1>7. CASE Record
  <2>1. /\ pc = "opening" /\ pc' = "saving" /\ msg' = msg
        /\ UNCHANGED <<saved, delivered>>
    BY <1>7 DEF Record
  <2>2. msg \in Message /\ msg \notin saved /\ msg \notin delivered
    BY <1>1, <2>1, RoomForAll DEF InHandOK, HistoryOK
  <2>3. life[msg] = "new" /\ life'[msg] = "claimed"
    BY <2>1, <2>2 DEF life
  <2>4. \A x \in Message \ {msg} : life'[x] = life[x]
    BY <2>1 DEF life
  <2> QED
    BY <2>2, <2>3, <2>4, BecomesPointwise DEF Accept!Next, Accept!Claim
<1>8. CASE Save
  BY <1>8 DEF Save, life
<1>9. CASE Deliver
  <2>1. /\ pc = "delivering" /\ pc' = "idle" /\ saved' = saved
        /\ delivered' = delivered \cup {msg}
    BY <1>9 DEF Deliver
  <2>2. msg \in Message /\ msg \notin delivered
    BY <1>1, <2>1, RoomForAll DEF InHandOK
  <2>3. life[msg] = "claimed" /\ life'[msg] = "delivered"
    BY <2>1, <2>2 DEF life
  <2>4. \A x \in Message \ {msg} : life'[x] = life[x]
    BY <2>1 DEF life
  <2> QED
    BY <2>2, <2>3, <2>4, BecomesPointwise DEF Accept!Next, Accept!Deliver
<1>10. CASE WriteFails
  BY <1>3, <1>10 DEF WriteFails
<1>11. CASE Crash
  <2>1. CASE pc \in {"saving", "delivering"}
    BY <1>3, <1>11, <2>1 DEF Crash
  <2>2. CASE pc \notin {"saving", "delivering"}
    BY <1>2, <1>11, <2>2 DEF Crash
  <2> QED
    BY <2>1, <2>2
<1>12. CASE Damage
  BY <1>12 DEF Damage
<1>13. CASE Restart
  BY <1>2, <1>13 DEF Restart
<1> QED
  BY <1>4, <1>5, <1>6, <1>7, <1>8, <1>9, <1>10, <1>11, <1>12, <1>13 DEF Next

(* Below the cap and with an undamaged file the guard implements           *)
(* Acceptance: a message is accepted at most once, and an acceptance that  *)
(* became durable ends in delivery or loss, never in a second attempt.     *)
THEOREM ImplementsAcceptance ==
    ASSUME Cardinality(Message) <= MaxTracked, ~DiskFaults
    PROVE  Spec => AcceptSpec
<1>1. Init => Accept!Init
  BY DEF Init, Accept!Init, life
<1>2. Init => Intact
  BY DEF Init, Intact
<1>3. Intact /\ [Next]_vars => Intact'
  BY DEF Intact, Next, vars, Tick, Check, Refuse, Record, Save, Deliver, WriteFails,
         Crash, Damage, Restart
<1>4. Inv /\ Intact /\ [Next]_vars => [Accept!Next]_life
  BY AcceptStep DEF Intact
<1> QED
  BY <1>1, <1>2, <1>3, <1>4, InvHolds, PTL DEF Spec, AcceptSpec, Accept!Spec
=============================================================================
