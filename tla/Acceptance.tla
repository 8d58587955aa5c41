----------------------------- MODULE Acceptance -----------------------------
(***************************************************************************)
(* What the receiver promises about each message, with no file, clock or   *)
(* process in sight: a message is accepted at most once, and acceptance    *)
(* ends in its delivery or, when something fails half-way, in its loss.    *)
(* An acceptance that is interrupted before it is durable never happened.  *)
(***************************************************************************)
CONSTANT Message
VARIABLE life

Init == life = [m \in Message |-> "new"]

Becomes(m, from, to) ==
    /\ life[m] = from
    /\ life' = [life EXCEPT ![m] = to]

Claim(m)   == Becomes(m, "new", "claimed")
Release(m) == Becomes(m, "claimed", "new")
Deliver(m) == Becomes(m, "claimed", "delivered")
Lose(m)    == Becomes(m, "claimed", "lost")

Next == \E m \in Message : Claim(m) \/ Release(m) \/ Deliver(m) \/ Lose(m)

Spec == Init /\ [][Next]_life
=============================================================================
