----------------------------- MODULE MCReceiver -----------------------------
(* Small instances of Receiver.  Alice is a contact, Carol is not.  The     *)
(* mails are chosen so that a genuine message competes with a forgery of    *)
(* itself, a copy of itself, mail that is never flagged, and mail from a    *)
(* sender that is learned, deferred or only invited.                        *)
EXTENDS Receiver

MCTimes == 0..2
M(i, t) == [id |-> i, ts |-> t]
MCMessage == {M("a", 0), M("b", 1), M("c", 1)}

Letter(m, from, attached, genuine) ==
    [kind |-> "message", msg |-> m, from |-> from, toMe |-> TRUE,
     attached |-> attached, genuine |-> genuine]
Misaddressed(m, from) == [Letter(m, from, TRUE, TRUE) EXCEPT !.toMe = FALSE]
Plain(kind, from) ==
    [kind |-> kind, msg |-> NoMessage, from |-> from, toMe |-> TRUE,
     attached |-> FALSE, genuine |-> TRUE]

FromAlice == Letter(M("a", 0), "alice", FALSE, TRUE)
LaterFromAlice == Letter(M("b", 1), "alice", FALSE, TRUE)
Forged == Letter(M("a", 0), "alice", FALSE, FALSE)
FromCarol == Letter(M("c", 1), "carol", TRUE, TRUE)
FromCarolNoKey == Letter(M("c", 1), "carol", FALSE, TRUE)
ForgedCarol == Letter(M("c", 1), "carol", TRUE, FALSE)

(* What may stand in each other's way: a genuine message, a forgery of it,  *)
(* one to learn a sender from, and a request from the same sender.          *)
ClashingMail ==
    {FromAlice, Forged, FromCarol, ForgedCarol, Plain("invitation", "carol"),
     Plain("invitation", "dave")}

(* One mail of each kind the pipeline tells apart. *)
AssortedMail ==
    {FromAlice, FromCarol, FromCarolNoKey, Misaddressed(M("b", 1), "alice"),
     Plain("other", "dave"), Plain("oversized", "dave"), Plain("malformed", "dave"),
     Plain("badInvitation", "dave"), Plain("invitation", "carol"), ForgedCarol,
     Plain("unhandled", "dave")}

(* Mail that lingers in the search results, and a message behind it. *)
QueueingMail == {FromAlice, LaterFromAlice, FromCarolNoKey, Plain("other", "dave")}

(* The same, and mail that no poll gets past or that is only rejected. *)
WaitingMail == QueueingMail \cup {Forged, Plain("unhandled", "dave")}
=============================================================================
