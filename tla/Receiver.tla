------------------------------ MODULE Receiver ------------------------------
(***************************************************************************)
(* The receive pipeline of one process: Receiver.poll_once over an IMAP    *)
(* mailbox, the checks of process_body in the order the code applies them, *)
(* and the state each step leaves behind.                                  *)
(*                                                                         *)
(*   idle --Poll--> next --Fetch--> fetched --Examine--> sender            *)
(*        sender --> [pin -->] open --> saving --> body --> sidecar        *)
(*        ... --> flag --> next --> ... --> idle                           *)
(*                                                                         *)
(* A step of the process ends where something outside its memory has       *)
(* changed, so that a crash can fall between any two such changes.         *)
(***************************************************************************)
EXTENDS ReplayRules, Sequences

CONSTANTS
    Mail,           \* the mails that may arrive, see MailAssumption
    Known,          \* senders in contacts.json at first
    Importable,     \* senders an operator may import in another process
    LearnSenders,   \* Receiver.learn_senders
    IncludeRead,    \* Receiver.include_read
    Limit,          \* policy.max_messages_per_poll
    MaxPending,     \* MAX_PENDING
    NoMessage,      \* no message is in hand
    (* Bounds and what the environment does, for the model checker. *)
    MaxBox,         \* mails that arrive
    MaxFaults,      \* faults that happen
    Ahead,          \* how far a sender's clock may be ahead
    Disturbances    \* kinds of disturbance that happen

ASSUME NoMessageAssumption == NoMessage \notin Message
ASSUME MailAssumption ==
    \A m \in Mail :
        /\ m.kind \in {"message", "malformed", "unhandled", "invitation",
                       "badInvitation", "other", "oversized"}
        /\ m.kind = "message" => m.msg \in Message
        /\ {m.toMe, m.attached, m.genuine} \subseteq BOOLEAN
ASSUME FlagAssumption == {LearnSenders, IncludeRead} \subseteq BOOLEAN
ASSUME LimitAssumption == Limit \in Nat \ {0} /\ MaxPending \in Nat
ASSUME DisturbanceAssumption ==
    Disturbances \subseteq {"crash", "write", "network", "stop", "client", "operator"}

VARIABLES
    (* the mail server *)
    box,          \* the mailbox: mail by uid
    flagged,      \* uids with the \Seen flag
    now,          \* time.time()
    (* the process *)
    pc, stopping, \* Receiver._stopping
    todo, cur,    \* uids the search returned and the loop has not reached; uid in hand
    seen,         \* ReplayGuard._seen
    contacts,     \* ContactStore._contacts, by fingerprint
    (* the disk *)
    file,         \* replay.json
    contactsFile, \* contacts.json
    pending,      \* the pending directory, by fingerprint
    body, sidecar,\* the .txt and .json files of the output directory, by message
    copies,       \* what other processes have loaded of contacts.json and may save
    (* history and bounds *)
    recorded, saved, \* as in ReplayGuard
    unkept,          \* keys whose save failed here, or that another process's save
                     \* took out of contacts.json
    faults           \* faults so far

server == <<box, flagged, now>>
memory == <<stopping, todo, cur, seen, contacts>>
disk   == <<file, contactsFile, pending, body, sidecar>>
others == <<copies, unkept>>
history == <<recorded, saved>>
vars == <<server, pc, memory, disk, others, history, faults>>

Uids == DOMAIN box
mail == box[cur]

Init ==
    /\ box = <<>> /\ flagged = {} /\ now \in Times
    /\ pc = "idle" /\ stopping = FALSE /\ todo = {} /\ cur = 0
    /\ seen = {} /\ contacts = Known
    /\ file = {} /\ contactsFile = Known /\ pending = {}
    /\ body = {} /\ sidecar = {} /\ copies = {}
    /\ recorded = {} /\ saved = {} /\ unkept = {} /\ faults = 0

-----------------------------------------------------------------------------
(* The environment. *)

Arrive(m) ==
    /\ Len(box) < MaxBox
    /\ m.kind = "message" => m.msg.ts <= now + Ahead
    /\ box' = Append(box, m)
    /\ UNCHANGED <<flagged, now, pc, memory, disk, others, history, faults>>

Tick ==
    /\ now + 1 \in Times
    /\ now' = now + 1
    /\ UNCHANGED <<box, flagged, pc, memory, disk, others, history, faults>>

(* Any mail client sharing the mailbox may set or clear the flag. *)
Reflag(u) ==
    /\ "client" \in Disturbances
    /\ flagged' \in {flagged \cup {u}, flagged \ {u}}
    /\ UNCHANGED <<box, now, pc, memory, disk, others, history, faults>>

(* An operator's commands (import-contact, pending --accept,               *)
(* remove-contact) are other processes.  Each loads contacts.json, changes *)
(* its copy and saves the whole of it, however much later; any number of   *)
(* them may hold the same copy.                                            *)
LoadCopy ==
    /\ "operator" \in Disturbances
    /\ copies' = copies \cup {contactsFile}
    /\ UNCHANGED <<server, pc, memory, disk, unkept, history, faults>>

SaveCopy(copy) ==
    /\ contactsFile' = copy
    /\ unkept' = unkept \cup (contactsFile \ copy)
    /\ UNCHANGED <<server, pc, memory, file, pending, body, sidecar, copies, history, faults>>
Import == \E copy \in copies, f \in Importable : SaveCopy(copy \cup {f})
RemoveContact == \E copy \in copies : \E f \in copy : SaveCopy(copy \ {f})

(* InviteStore.remove: a request has been accepted or dismissed. *)
Decide ==
    /\ "operator" \in Disturbances
    /\ \E f \in pending : pending' = pending \ {f}
    /\ UNCHANGED <<server, pc, memory, file, contactsFile, body, sidecar, others, history, faults>>

Commands == LoadCopy \/ Import \/ RemoveContact \/ Decide

(* request_stop, on SIGINT or SIGTERM *)
RequestStop ==
    /\ "stop" \in Disturbances
    /\ pc # "down"
    /\ stopping' = TRUE
    /\ UNCHANGED <<server, pc, todo, cur, seen, contacts, disk, others, history, faults>>

-----------------------------------------------------------------------------
(* What the steps have in common. *)

Goto(step) == pc' = step /\ UNCHANGED <<server, disk, others, history, faults>>
Stay(step) == Goto(step) /\ UNCHANGED memory

(* The loop of poll_once is done with the mail in hand. *)
Continue(step) == pc' = step /\ cur' = 0 /\ UNCHANGED <<stopping, todo, seen, contacts>>

(* The process ends, and its memory with it. *)
Ends ==
    /\ pc' = "down"
    /\ stopping' = FALSE /\ todo' = {} /\ cur' = 0
    /\ seen' = {} /\ contacts' = {}
    /\ UNCHANGED <<server, disk, copies, history>>

(* An exception leaves poll_once: the loop around it waits and starts a    *)
(* new poll.                                                               *)
AbandonsAndFlags ==
    /\ pc' = IF cur = 0 THEN "next" ELSE "flag"
    /\ UNCHANGED <<memory, server, disk, copies, history>>
Abandons ==
    /\ pc' = "idle"
    /\ todo' = {} /\ cur' = 0
    /\ UNCHANGED <<stopping, seen, contacts, server, disk, copies, history>>

Fault(kind) ==
    /\ kind \in Disturbances
    /\ faults < MaxFaults
    /\ faults' = faults + 1

-----------------------------------------------------------------------------
(* One poll. *)

(* search_unseen: unread mail, or all of it, the oldest Limit of it. *)
Candidates == {u \in Uids : IncludeRead \/ u \notin flagged}
NewestOf(uids) == {u \in uids : Cardinality({v \in uids : v > u}) < Limit}
OldestOf(uids) == {u \in uids : Cardinality({v \in uids : v < u}) < Limit}

(* connect and search_unseen *)
Poll ==
    /\ pc = "idle" /\ ~stopping
    /\ todo' = OldestOf(Candidates)
    /\ Goto("next")
    /\ UNCHANGED <<stopping, cur, seen, contacts>>

(* fetch: an oversized mail is skipped. *)
FetchAgain ==
    /\ pc = "next"
    /\ \E u \in todo :
        /\ \A v \in todo : u <= v
        /\ IF box[u].kind = "oversized"
           THEN cur' = 0 /\ Goto("next")
           ELSE cur' = u /\ Goto("fetched")
    /\ UNCHANGED <<stopping, todo, seen, contacts>>
Fetch ==
    /\ pc = "next"
    /\ \E u \in todo :
        /\ \A v \in todo : u <= v
        /\ todo' = todo \ {u}
        /\ IF box[u].kind = "oversized"
           THEN cur' = 0 /\ Goto("next")
           ELSE cur' = u /\ Goto("fetched")
    /\ UNCHANGED <<stopping, seen, contacts>>

EndPoll ==
    /\ pc = "next" /\ todo = {}
    /\ Stay("idle")

(* The loops of poll_once and run_forever notice the request. *)
Exit ==
    /\ stopping
    /\ pc \in {"fetched", "idle"}
    /\ Ends
    /\ UNCHANGED <<unkept, faults>>

(* No block in the body: left unread for the user's mail client. *)
Skip ==
    /\ pc = "fetched" /\ ~stopping
    /\ mail.kind = "other"
    /\ Continue("next")
    /\ UNCHANGED <<server, disk, others, history, faults>>

(* _process_invitation: to be filed, unless it is malformed, from a        *)
(* contact, filed already or one too many; flagged read in any case.       *)
Room(f) == f \notin pending /\ Cardinality(pending) < MaxPending
ReadInvitation ==
    /\ pc = "fetched" /\ ~stopping
    /\ mail.kind \in {"invitation", "badInvitation"}
    /\ Stay(IF mail.kind = "invitation" /\ mail.from \notin contacts /\ Room(mail.from)
            THEN "filing" ELSE "flag")

(* InviteStore.add, after it has looked and counted. *)
FileInvitationAsContact ==
    /\ pc = "filing"
    /\ contacts' = contacts \cup {mail.from}
    /\ pc' = "flag"
    /\ UNCHANGED <<server, stopping, todo, cur, seen, disk, others, history, faults>>
FileInvitation ==
    /\ pc = "filing"
    /\ pending' = pending \cup {mail.from}
    /\ pc' = "flag"
    /\ UNCHANGED <<server, memory, file, contactsFile, body, sidecar, others, history, faults>>

(* process_body up to check_unseen *)
Acceptable(m) ==
    /\ m.kind = "message"
    /\ m.toMe
    /\ Fresh(m.msg.ts, now)
    /\ Unseen(m.msg.id, seen)

ExamineAndLeave ==
    /\ pc = "fetched" /\ ~stopping
    /\ mail.kind \in {"message", "malformed"}
    /\ IF Acceptable(mail)
       THEN Stay("sender")
       ELSE Continue("next") /\ UNCHANGED <<server, disk, others, history, faults>>
Examine ==
    /\ pc = "fetched" /\ ~stopping
    /\ mail.kind \in {"message", "malformed"}
    /\ Stay(IF Acceptable(mail) THEN "sender" ELSE "flag")

(* An attached identity or an invitation that is JSON nested too deep, an  *)
(* address that has no UTF-8 form, a number of thousands of digits: the    *)
(* exception is none that _process_fetched handles.  The web poller logs   *)
(* it and polls again later, the command line daemon dies.                 *)
Unhandled ==
    /\ pc = "fetched" /\ ~stopping
    /\ mail.kind = "unhandled"
    /\ Abandons \/ Ends
    /\ UNCHANGED <<unkept, faults>>

(* _resolve_sender: a contact, or one to be learned, or deferred: the mail *)
(* stays unread.                                                           *)
Learnable(m) == LearnSenders /\ m.attached

KnownSender ==
    /\ pc = "sender" /\ mail.from \in contacts
    /\ Stay("open")

LearnSender ==
    /\ pc = "sender" /\ mail.from \notin contacts /\ Learnable(mail)
    /\ contacts' = contacts \cup {mail.from}
    /\ Goto("pin")
    /\ UNCHANGED <<stopping, todo, cur, seen>>

Defer ==
    /\ pc = "sender" /\ mail.from \notin contacts /\ ~Learnable(mail)
    /\ Continue("next")
    /\ UNCHANGED <<server, disk, others, history, faults>>

(* ContactStore._save replaces the whole file by this process's copy. *)
PinNothing ==
    /\ pc = "pin"
    /\ Stay("open")
Pin ==
    /\ pc = "pin"
    /\ contactsFile' = contacts
    /\ pc' = "open"
    /\ UNCHANGED <<server, memory, file, pending, body, sidecar, others, history, faults>>

(* open_envelope verifies and decrypts, or rejects; then record() updates  *)
(* the memory,                                                             *)
Reject ==
    /\ pc = "open" /\ ~mail.genuine
    /\ Stay("flag")

RecordUnverified ==
    /\ pc = "open"
    /\ seen' \in Prune(Remember(seen, mail.msg), now)
    /\ recorded' = recorded \cup {mail.msg}
    /\ pc' = IF mail.genuine THEN "saving" ELSE "flag"
    /\ UNCHANGED <<server, stopping, todo, cur, contacts, disk, saved, faults, others>>
Record ==
    /\ pc = "open" /\ mail.genuine
    /\ seen' \in Prune(Remember(seen, mail.msg), now)
    /\ recorded' = recorded \cup {mail.msg}
    /\ pc' = "saving"
    /\ UNCHANGED <<server, stopping, todo, cur, contacts, disk, saved, faults, others>>

(* and then the file. *)
Save ==
    /\ pc = "saving"
    /\ file' = seen
    /\ saved' = saved \cup {mail.msg}
    /\ pc' = "body"
    /\ UNCHANGED <<server, memory, contactsFile, pending, body, sidecar, others, recorded, faults>>

(* deliver: the plaintext, then its metadata, each written atomically.     *)
WriteSidecarFirst ==
    /\ pc = "body"
    /\ sidecar' = sidecar \cup {mail.msg}
    /\ pc' = "sidecar"
    /\ UNCHANGED <<server, memory, file, contactsFile, pending, body, others, history, faults>>
WriteBody ==
    /\ pc = "body"
    /\ body' = body \cup {mail.msg}
    /\ pc' = "sidecar"
    /\ UNCHANGED <<server, memory, file, contactsFile, pending, sidecar, others, history, faults>>

WriteSidecar ==
    /\ pc = "sidecar"
    /\ sidecar' = sidecar \cup {mail.msg}
    /\ pc' = "flag"
    /\ UNCHANGED <<server, memory, file, contactsFile, pending, body, others, history, faults>>

(* mark_seen *)
Flag ==
    /\ pc = "flag"
    /\ flagged' = flagged \cup {cur}
    /\ Continue("next")
    /\ UNCHANGED <<box, now, disk, others, history, faults>>

(* __init__ after a crash, an exit, or an error that ended the process.    *)
RestartEmpty ==
    /\ pc = "down"
    /\ pc' = "idle"
    /\ seen' = {}
    /\ contacts' = contactsFile
    /\ UNCHANGED <<server, stopping, todo, cur, disk, others, history, faults>>
Restart ==
    /\ pc = "down"
    /\ pc' = "idle"
    /\ seen' \in Prune(file, now)
    /\ contacts' = contactsFile
    /\ UNCHANGED <<server, stopping, todo, cur, disk, others, history, faults>>

-----------------------------------------------------------------------------
(* Faults. *)

Crash ==
    /\ Fault("crash")
    /\ pc # "down"
    /\ Ends
    /\ UNCHANGED unkept

(* A write fails with OSError, which no handler of the receiver catches:   *)
(* the web poller logs it and goes on, the command line daemon dies.       *)
WriteFails ==
    /\ Fault("write")
    /\ pc \in {"filing", "pin", "saving", "body", "sidecar"}
    /\ unkept' = IF pc = "pin" THEN unkept \cup {mail.from} ELSE unkept
    /\ Abandons \/ Ends

(* The connection is lost, in fetch or while the flag is stored.  An IMAP  *)
(* error in fetch is a TransportError and in mark_seen a warning; a plain  *)
(* OSError is neither, and ends the command line daemon.                   *)
ConnectionFails ==
    /\ Fault("network")
    /\ pc = "flag" \/ (pc = "next" /\ todo # {})
    /\ Abandons \/ Ends
    /\ UNCHANGED unkept

(* The server refuses to fetch, or to store the flag. *)
FetchRefused ==
    /\ Fault("network")
    /\ pc = "next"
    /\ \E u \in todo : (\A v \in todo : u <= v) /\ todo' = todo \ {u}
    /\ UNCHANGED <<pc, server, stopping, cur, seen, contacts, disk, others, history>>

StoreFails ==
    /\ Fault("network")
    /\ pc = "flag"
    /\ Continue("next")
    /\ UNCHANGED <<server, disk, others, history>>

Process ==
    \/ Poll \/ Fetch \/ EndPoll \/ Exit
    \/ Skip \/ ReadInvitation \/ FileInvitation \/ Examine \/ Unhandled
    \/ KnownSender \/ LearnSender \/ Defer \/ Pin
    \/ Reject \/ Record \/ Save \/ WriteBody \/ WriteSidecar
    \/ Flag
    \/ Restart

Next ==
    \/ Process
    \/ \E m \in Mail : Arrive(m)
    \/ Tick
    \/ \E u \in Uids : Reflag(u)
    \/ Commands
    \/ RequestStop
    \/ Crash \/ WriteFails \/ ConnectionFails \/ FetchRefused \/ StoreFails

Spec == Init /\ [][Next]_vars

(* The process keeps taking steps and, when it is down, the service        *)
(* manager starts it again (Restart=on-failure, restart: unless-stopped).  *)
(* Nothing is assumed of the environment.                                  *)
FairSpec == Spec /\ WF_vars(Process)

-----------------------------------------------------------------------------
(* What the properties talk about.                                         *)

(* A message that this receiver should accept, should it still be timely.  *)
Wanted(m) ==
    /\ m.kind = "message" /\ m.toMe /\ m.genuine
    /\ m.from \in Known \/ Learnable(m)
Expired(m) == m.kind = "message" /\ now - m.msg.ts > MaxAge

InMailbox(P(_)) == {box[u] : u \in {v \in Uids : P(box[v])}}

(* Whose key may be here: a contact at first, one that an operator chose   *)
(* to import, or one whose message came with the key while learning is on. *)
Introduced ==
    Known \cup Importable \cup
        {m.from : m \in InMailbox(LAMBDA m : m.kind = "message" /\ Learnable(m))}

(* Mail the search returns again and again: it is never flagged read, or   *)
(* the search does not look at the flag.                                   *)
Lingers(m) ==
    \/ IncludeRead
    \/ m.kind \in {"other", "oversized", "unhandled"}
    \/ m.kind = "message" /\ m.toMe /\ m.from \notin Known /\ ~Learnable(m)

(* Limit older mails that linger, or one that ends every poll that meets it. *)
CrowdedOut(u) == Cardinality({v \in Uids : v < u /\ Lingers(box[v])}) >= Limit
CutOff(u) == \E v \in Uids : v < u /\ box[v].kind = "unhandled"
OutOfReach(u) == CrowdedOut(u) \/ CutOff(u)

TypeOK ==
    /\ box \in Seq(Mail) /\ flagged \subseteq Uids /\ now \in Times
    /\ pc \in {"down", "idle", "next", "fetched", "filing", "sender", "pin", "open",
               "saving", "body", "sidecar", "flag"}
    /\ stopping \in BOOLEAN
    /\ todo \subseteq Uids
    /\ cur \in IF pc \in {"down", "idle", "next"} THEN {0} ELSE Uids \ todo
    /\ UNION {seen, file, body, sidecar, recorded, saved} \subseteq Message

-----------------------------------------------------------------------------
(* Safety.                                                                 *)

(* Only a message that passed every check enters the replay record, so     *)
(* that one which is rejected, or deferred for its sender, never consumes  *)
(* the id of a genuine one (test_receiver.py:164).                         *)
RejectionConsumesNoId ==
    seen \cup file \subseteq
        {m.msg : m \in InMailbox(LAMBDA m :
            m.kind = "message" /\ m.toMe /\ m.genuine /\ m.from \in Introduced)}

(* A wanted message is flagged read only after its record, or once it is   *)
(* out of the window: a deferred, stopped or interrupted one never is.     *)
NothingWantedIsDropped ==
    pc = "flag" /\ Wanted(mail) => mail.msg \in recorded \/ Expired(mail)

(* Whatever was written out came from a genuine message addressed here.    *)
(* Its sender's key was saved in contacts.json before it was, unless that  *)
(* save failed; and no crash, restart or later save of the receiver takes  *)
(* it out again: only another process's save from a copy without it does.  *)
DeliveredIsVouchedFor ==
    \A b \in body : \E u \in Uids :
        /\ box[u].kind = "message" /\ box[u].msg = b
        /\ box[u].toMe /\ box[u].genuine
        /\ box[u].from \in contactsFile \cup unkept

(* The web inbox lists messages by their sidecar: one that is listed has   *)
(* its body, and one that has a body has its record.                       *)
InboxShowsWholeMessages == sidecar \subseteq body /\ body \subseteq saved

(* An invitation alone makes nobody a contact (SECURITY.md:108), neither   *)
(* here nor in what another process will save.                             *)
NeverImportedOnItsOwn ==
    contacts \cup contactsFile \cup UNION copies \subseteq Introduced

-----------------------------------------------------------------------------
(* The guard's part of the pipeline is ReplayGuard: every step here is one *)
(* of its steps or leaves it alone.                                        *)
guardStep ==
    CASE pc \in {"sender", "pin", "open"} -> "opening"
      [] pc = "saving" -> "saving"
      [] pc = "body" -> "delivering"
      [] pc = "down" -> "down"
      [] OTHER -> "idle"

Guard == INSTANCE ReplayGuard WITH
    pc <- guardStep,
    msg <- IF guardStep \in {"idle", "down"} THEN NoMessage ELSE mail.msg,
    high <- now,
    disk <- "intact",
    delivered <- body,
    ClockBack <- 0,
    DiskFaults <- FALSE

ImplementsReplayGuard == Guard!Spec

-----------------------------------------------------------------------------
(* Liveness.                                                               *)

ArrivedWanted(u) == u \in Uids /\ Wanted(box[u])
Settled(u) == u \in Uids /\ (box[u].msg \in saved \/ Expired(box[u]))

(* A wanted message that arrived in time is accepted before it expires, or *)
(* it is out of the reach of every poll, while files can be written.       *)
WantedMailIsTaken ==
    \A u \in 1..MaxBox : ArrivedWanted(u) ~> Settled(u) \/ OutOfReach(u)

(* What the receiver has dealt with leaves the search results: a mail that *)
(* was delivered, filed or rejected is flagged read in the end, although   *)
(* the flag may not be stored at first and the mail be met again.          *)
HandledMailIsFlagged ==
    \A u \in 1..MaxBox :
        u \in Uids /\ ~Lingers(box[u]) ~> u \in flagged \/ OutOfReach(u)

(* "One hostile sender must never be able to stop the daemon from          *)
(* processing everyone else's mail" (receiver.py:13).                      *)
EveryWantedMailIsTaken == \A u \in 1..MaxBox : ArrivedWanted(u) ~> Settled(u)
=============================================================================
