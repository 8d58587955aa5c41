------------------------------- MODULE Outbox -------------------------------
(***************************************************************************)
(* Sending from the web inbox and from the command line.                   *)
(*                                                                         *)
(*   resolve -> send lock -> seal -> connect -> [STARTTLS] -> log in       *)
(*   -> hand over -> QUIT -> record as sent -> unlock -> answer            *)
(*                                                                         *)
(* The command line takes no lock and records nothing.  A user may submit  *)
(* a text again at any moment until told that it was sent.                 *)
(***************************************************************************)
EXTENDS Integers, Sequences, SequencesExt, FiniteSets

CONSTANTS
    Handler,    \* handler threads of the web inbox
    Cli,        \* processes of the command line
    Text,       \* what the user wants to say, each thing once
    Contact,    \* records [fp, address]: the contact store
    Stranger,   \* further ones, whose key may arrive by mail
    Reference,  \* what the user may write to: fingerprints and addresses
    (* Bounds for the model checker. *)
    MaxSubmitted, \* submissions that reach a contact
    MaxFaults     \* network, server and disk failures and crashes

Sender == Handler \cup Cli
None == "nobody"

ASSUME SenderAssumption == Handler \cap Cli = {} /\ None \notin Sender \cup Text
ASSUME BoundsAssumption == MaxSubmitted \in Nat /\ MaxFaults \in Nat

VARIABLES
    settings,  \* SMTP security, and whether the server offers STARTTLS
    contacts,
    step, req, \* where each sender is, and with what
    lock,      \* _send_lock
    link,      \* its connection: "none", "plain" or "tls"
    sealed,    \* messages sealed so far; a message is named by its number
    relayed,   \* messages the server accepted, in that order
    sent,      \* the sent log
    told,      \* what the user was told of each text
    hasty,     \* history: texts submitted while an attempt was under way
    doubt,     \* history: messages accepted, of which nobody was told so
    submitted, faults

user == <<told, hasty, submitted>>
vars == <<settings, contacts, step, req, lock, link, sealed, relayed, sent, user,
          doubt, faults>>

NoRequest == [text |-> None, to |-> None, id |-> 0]

Init ==
    /\ settings \in [security : {"starttls", "ssl"}, offered : BOOLEAN]
    /\ settings.security = "ssl" => settings.offered
    /\ contacts = Contact
    /\ step = [s \in Sender |-> "free"] /\ req = [s \in Sender |-> NoRequest]
    /\ lock = None /\ link = [s \in Sender |-> "none"]
    /\ sealed = 0 /\ relayed = <<>> /\ sent = {}
    /\ told = [x \in Text |-> "nothing"] /\ hasty = {} /\ doubt = {}
    /\ submitted = 0 /\ faults = 0

-----------------------------------------------------------------------------
(* ContactStore.resolve: a fingerprint, or an address that is unambiguous. *)
Named(ref) == {c \in contacts : c.fp = ref}
At(ref) == {c \in contacts : c.address = ref}
Resolve(ref) == IF Named(ref) # {} THEN Named(ref)
                ELSE IF Cardinality(At(ref)) = 1 THEN At(ref) ELSE {}

Goes(s, at) ==
    step' = [step EXCEPT ![s] = at] /\ UNCHANGED <<settings, contacts, user>>
(* Out of the block that holds the lock. *)
Leaves(s, at) ==
    /\ Goes(s, at)
    /\ link' = [link EXCEPT ![s] = "none"]
    /\ lock' = IF lock = s THEN None ELSE lock
(* What a user has once been told was sent is not sent again. *)
Hears(x, answer) == told' = [told EXCEPT ![x] = IF @ = "sent" THEN @ ELSE answer]
(* The request is over, and the user sees how it ended. *)
Ends(s, answer) ==
    /\ step' = [step EXCEPT ![s] = "free"] /\ req' = [req EXCEPT ![s] = NoRequest]
    /\ Hears(req[s].text, answer)
    /\ UNCHANGED <<settings, contacts, hasty, submitted, sealed, relayed>>

UnderWay(x) == \E s \in Sender : req[s].text = x
Submit(s, x, ref) ==
    /\ step[s] = "free" /\ told[x] # "sent"
    /\ \/ \E c \in Resolve(ref) :
            /\ submitted < MaxSubmitted /\ submitted' = submitted + 1
            /\ step' = [step EXCEPT ![s] = "resolved"]
            /\ req' = [req EXCEPT ![s] = [text |-> x, to |-> c.fp, id |-> 0]]
            /\ hasty' = hasty \cup {y \in {x} : UnderWay(y)}
            /\ UNCHANGED told
       \/ Resolve(ref) = {} /\ Hears(x, "error") /\ UNCHANGED <<step, req, hasty, submitted>>
    /\ UNCHANGED <<settings, contacts, lock, link, sealed, relayed, sent, doubt, faults>>

(* The lock is taken and the message sealed. *)
SealUnlocked(s) ==
    /\ step[s] = "resolved" /\ Goes(s, "sealed")
    /\ sealed' = sealed + 1 /\ req' = [req EXCEPT ![s].id = sealed + 1]
    /\ UNCHANGED <<lock, link, relayed, sent, doubt, faults>>
Seal(s) ==
    /\ step[s] = "resolved" /\ Goes(s, "sealed")
    /\ s \in Handler => lock = None
    /\ lock' = IF s \in Handler THEN s ELSE lock
    /\ sealed' = sealed + 1 /\ req' = [req EXCEPT ![s].id = sealed + 1]
    /\ UNCHANGED <<link, relayed, sent, doubt, faults>>
Entry(s) == [text |-> req[s].text, to |-> req[s].to, id |-> req[s].id, by |-> s]

(* smtp._deliver. *)
Opens(s) == link' = [link EXCEPT ![s] = IF settings.security = "ssl" THEN "tls" ELSE "plain"]
ConnectRecorded(s) ==
    /\ step[s] = "sealed" /\ Goes(s, "connected") /\ Opens(s)
    /\ sent' = IF s \in Handler THEN sent \cup {Entry(s)} ELSE sent
    /\ UNCHANGED <<req, lock, sealed, relayed, doubt, faults>>
Connect(s) ==
    /\ step[s] = "sealed" /\ Goes(s, "connected") /\ Opens(s)
    /\ UNCHANGED <<req, lock, sealed, relayed, sent, doubt, faults>>
StartTlsIfOffered(s) ==
    /\ step[s] = "connected" /\ Goes(s, "secured")
    /\ link' = [link EXCEPT ![s] = IF settings.offered THEN "tls" ELSE @]
    /\ UNCHANGED <<req, lock, sealed, relayed, sent, doubt, faults>>
StartTls(s) ==
    /\ step[s] = "connected" /\ Goes(s, "secured")
    /\ settings.security = "starttls" => settings.offered
    /\ link' = [link EXCEPT ![s] = "tls"]
    /\ UNCHANGED <<req, lock, sealed, relayed, sent, doubt, faults>>
RefuseToSendInTheClear(s) ==
    /\ step[s] = "connected" /\ settings.security = "starttls" /\ ~settings.offered
    /\ Leaves(s, "failed")
    /\ UNCHANGED <<req, sealed, relayed, sent, doubt, faults>>
(* Log in, and hand the message over. *)
HandOver(s) ==
    /\ step[s] = "secured" /\ Goes(s, "accepted")
    /\ relayed' = Append(relayed, Entry(s))
    /\ UNCHANGED <<req, lock, link, sealed, sent, doubt, faults>>
(* Whether QUIT is answered or its answer is lost: smtplib lets a server   *)
(* that has gone away pass.                                                *)
Quit(s) ==
    /\ step[s] = "accepted" /\ Goes(s, "quit")
    /\ UNCHANGED <<req, lock, link, sealed, relayed, sent, doubt, faults>>

RecordAndComplain(s) ==
    /\ step[s] = "quit" /\ Leaves(s, "failed")
    /\ sent' = IF s \in Handler THEN sent \cup {Entry(s)} ELSE sent
    /\ UNCHANGED <<req, sealed, relayed, doubt, faults>>
Record(s) ==
    /\ step[s] = "quit" /\ Goes(s, "recorded")
    /\ sent' = IF s \in Handler THEN sent \cup {Entry(s)} ELSE sent
    /\ UNCHANGED <<req, lock, link, sealed, relayed, doubt, faults>>
Unlock(s) ==
    /\ step[s] = "recorded" /\ Leaves(s, "unlocked")
    /\ UNCHANGED <<req, sealed, relayed, sent, doubt, faults>>
(* _act: the redirect to the inbox page; or what the command line prints.  *)
Answer(s) ==
    /\ \/ step[s] = "unlocked" /\ Ends(s, "sent")
       \/ step[s] = "failed" /\ Ends(s, "error")
    /\ UNCHANGED <<lock, link, sent, doubt, faults>>

-----------------------------------------------------------------------------
(* What may go wrong. *)
Fault == faults < MaxFaults /\ faults' = faults + 1
Accepted == {"accepted", "quit", "recorded", "unlocked"}
Unanswered(S) == doubt' = doubt \cup {Entry(s) : s \in {r \in S : step[r] \in Accepted}}

(* The server or the network, before the message is accepted, or a reply   *)
(* to QUIT that is not 221.                                                *)
FailKeepingLock(s) ==
    /\ Fault /\ step[s] \in {"sealed", "connected", "secured", "accepted"}
    /\ Goes(s, "failed") /\ link' = [link EXCEPT ![s] = "none"] /\ Unanswered({s})
    /\ UNCHANGED <<req, lock, sealed, relayed, sent>>
Fail(s) ==
    /\ Fault /\ step[s] \in {"sealed", "connected", "secured", "accepted"}
    /\ Leaves(s, "failed") /\ Unanswered({s})
    /\ UNCHANGED <<req, sealed, relayed, sent>>
(* The message is accepted and the server's answer to it is lost. *)
AnswerLost(s) ==
    /\ Fault /\ step[s] = "secured" /\ Leaves(s, "failed")
    /\ relayed' = Append(relayed, Entry(s)) /\ doubt' = doubt \cup {Entry(s)}
    /\ UNCHANGED <<req, sealed, sent>>
(* The record cannot be written: the exception ends the handler, and the   *)
(* browser sees the connection close.                                      *)
RecordFails(s) ==
    /\ Fault /\ step[s] = "quit" /\ s \in Handler
    /\ Ends(s, "dropped") /\ Unanswered({s})
    /\ link' = [link EXCEPT ![s] = "none"]
    /\ lock' = IF lock = s THEN None ELSE lock
    /\ UNCHANGED sent
(* The browser has gone before the redirect. *)
RedirectLost(s) ==
    /\ Fault /\ step[s] \in {"unlocked", "failed"} /\ s \in Handler
    /\ Ends(s, "dropped") /\ Unanswered({s})
    /\ UNCHANGED <<lock, link, sent>>
(* A process dies: that of the web inbox, or one of the command line.      *)
Crash(S) ==
    /\ Fault /\ Unanswered(S)
    /\ step' = [s \in Sender |-> IF s \in S THEN "free" ELSE step[s]]
    /\ req' = [s \in Sender |-> IF s \in S THEN NoRequest ELSE req[s]]
    /\ link' = [s \in Sender |-> IF s \in S THEN "none" ELSE link[s]]
    /\ lock' = IF lock \in S THEN None ELSE lock
    /\ told' = [x \in Text |-> IF told[x] # "sent" /\ \E s \in S : req[s].text = x
                               THEN "dropped" ELSE told[x]]
    /\ UNCHANGED <<settings, contacts, hasty, submitted, sealed, relayed, sent>>

(* A message of the poller's may bring a new contact. *)
Learn(c) ==
    /\ contacts' = contacts \cup {c}
    /\ UNCHANGED <<settings, step, req, lock, link, sealed, relayed, sent, user, doubt, faults>>

Sends(s) ==
    \/ Seal(s) \/ Connect(s) \/ StartTls(s) \/ RefuseToSendInTheClear(s)
    \/ HandOver(s) \/ Quit(s) \/ Record(s) \/ Unlock(s) \/ Answer(s)

Next ==
    \/ \E s \in Sender :
        \/ \E x \in Text, ref \in Reference : Submit(s, x, ref)
        \/ Sends(s) \/ Fail(s) \/ AnswerLost(s) \/ RecordFails(s) \/ RedirectLost(s)
    \/ \E S \in {Handler} \cup {{c} : c \in Cli} : Crash(S)
    \/ \E c \in Stranger \ contacts : Learn(c)

Spec == Init /\ [][Next]_vars

(* Every network step ends, by an answer or by QUMAIL_SMTP_TIMEOUT; the    *)
(* lock is granted to each waiting thread in the end.                      *)
FairSpec == Spec /\ \A s \in Sender : SF_vars(Sends(s))

-----------------------------------------------------------------------------
(* The shape of the state.  The lock is held by the handler that is        *)
(* sealing, sending or recording, and a password or a mail goes out over   *)
(* TLS only ("Never fall back to plaintext", smtp.py:76).                  *)
TypeOK ==
    /\ submitted \in 0..MaxSubmitted /\ faults \in 0..MaxFaults
    /\ lock \in Handler \cup {None}
    /\ \A h \in Handler : lock = h <=> step[h] \notin {"free", "resolved", "unlocked", "failed"}
    /\ \A s \in Sender :
        /\ step[s] \in {"free", "resolved", "sealed", "connected", "secured",
                        "accepted", "quit", "recorded", "unlocked", "failed"}
        /\ step[s] \in {"secured", "accepted", "quit", "recorded"} => link[s] = "tls"
    /\ DOMAIN told = Text

(* The sent log holds only what the server accepted, and what the web      *)
(* inbox calls sent was accepted and is in the log.                        *)
SentLogIsTrue ==
    /\ sent \subseteq ToSet(relayed)
    /\ \A x \in Text : told[x] = "sent" =>
        \E m \in ToSet(relayed) : m.text = x /\ (m.by \in Handler => m \in sent)

(* A user who waits for each answer before submitting a text again makes   *)
(* it go out twice only if the server had accepted it in an earlier        *)
(* attempt that the user never heard had succeeded: its acceptance was     *)
(* lost or QUIT refused, the record could not be written, the redirect was *)
(* lost, or the process died anywhere between.                             *)
TwiceOnlyInDoubt ==
    \A i, j \in DOMAIN relayed :
        i < j /\ relayed[i].text = relayed[j].text =>
            relayed[i].text \in hasty \/ relayed[i] \in doubt

(* Messages of the web inbox leave in the order in which they were sealed  *)
(* and given their timestamps ("One send at a time", server.py:125).       *)
LeavesInOrder ==
    \A i, j \in DOMAIN relayed :
        i < j /\ {relayed[i].by, relayed[j].by} \subseteq Handler => relayed[i].id < relayed[j].id

(* Every submission ends with an answer or with the connection closed, so  *)
(* the send lock is free again for the next, whatever fails.               *)
AnswersCome == \A s \in Sender : step[s] # "free" ~> step[s] = "free"
=============================================================================
