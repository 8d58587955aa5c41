--------------------------- MODULE ReceiverProofs ---------------------------
(***************************************************************************)
(* Proofs about Receiver for any mails, senders, limits and disturbances,  *)
(* in any number.                                                          *)
(***************************************************************************)
EXTENDS Receiver, TLAPS

Examined == {"sender", "pin", "open", "saving", "body", "sidecar"}

(* What is established about the mail in hand: only a request is filed; it *)
(* is a message for this receiver once the first checks have passed,       *)
(* genuine and on record once it has been opened, and saved once it is     *)
(* written.                                                                *)
InHand ==
    /\ pc = "filing" => mail.kind = "invitation"
    /\ pc \in Examined => mail.kind = "message" /\ mail.toMe
    /\ pc \in {"saving", "body", "sidecar"} => mail.genuine /\ mail.msg \in recorded
    /\ pc \in {"body", "sidecar"} => mail.msg \in saved
    /\ pc = "sidecar" => mail.msg \in body

TInv == TypeOK /\ InHand

-----------------------------------------------------------------------------
(* Pruning, as every holder of a record needs it.                          *)
LEMMA PruneShrinks ==
    ASSUME NEW S, NEW t, NEW K \in Prune(S, t) PROVE K \subseteq S
  BY DEF Prune, Newest, Live

(* Mail is only ever added to the mailbox, and its uids stand for it.      *)
LEMMA BoxGrows ==
    ASSUME TypeOK, NEW m \in Mail, Arrive(m)
    PROVE  /\ box' \in Seq(Mail) /\ Uids \subseteq Uids'
           /\ \A u \in Uids : box'[u] = box[u]
<1>1. box \in Seq(Mail) /\ box' = Append(box, m)
  BY DEF TypeOK, Arrive
<1>2. box' \in Seq(Mail) /\ Len(box') = Len(box) + 1
      /\ \A u \in 1..Len(box) : box'[u] = box[u]
  BY <1>1
<1>3. DOMAIN box = 1..Len(box) /\ DOMAIN box' = 1..Len(box')
  BY <1>1, <1>2
<1>4. Len(box) \in Nat
  BY <1>1
<1> QED
  BY <1>2, <1>3, <1>4 DEF Uids

(* Its mail is what the type of the mailbox says.                          *)
LEMMA MailInHand ==
    ASSUME TypeOK, pc \notin {"down", "idle", "next"}
    PROVE  cur \in Uids /\ cur \notin todo /\ mail \in Mail
<1>1. cur \in Uids /\ cur \notin todo
  BY DEF TypeOK
<1>2. \A u \in DOMAIN box : box[u] \in Mail
  BY DEF TypeOK
<1> QED
  BY <1>1, <1>2 DEF Uids, mail

(* The commands of other processes touch two files and nothing else.       *)
LEMMA CommandsStay ==
    ASSUME Commands
    PROVE  UNCHANGED <<server, pc, memory, file, body, sidecar, history, faults>>
  BY DEF Commands, LoadCopy, Import, RemoveContact, SaveCopy, Decide, disk

(* The server's part of the environment.                                   *)
LEMMA TypeOfEnvironment ==
    ASSUME TInv,
           \/ \E m \in Mail : Arrive(m)
           \/ Tick
           \/ \E u \in Uids : Reflag(u)
           \/ Commands \/ RequestStop
    PROVE  TInv'
<1> USE DEF TInv
<1>1. ASSUME NEW m \in Mail, Arrive(m) PROVE TInv'
  <2>1. UNCHANGED <<flagged, now, pc, memory, disk, history, faults>>
    BY <1>1 DEF Arrive
  <2>2. TypeOK'
    BY <1>1, <2>1, BoxGrows DEF TypeOK, memory, disk, history
  <2>3. pc \notin {"down", "idle", "next"} => mail' = mail
    BY <1>1, <2>1, BoxGrows, MailInHand DEF mail, memory
  <2>4. InHand'
    BY <2>1, <2>3 DEF InHand, Examined, memory, disk, history
  <2> QED
    BY <2>2, <2>4
<1>2. CASE Tick
  BY <1>2 DEF Tick, TypeOK, InHand, Examined, memory, disk, history, mail, Uids
<1>3. ASSUME NEW u \in Uids, Reflag(u) PROVE TInv'
  <2>1. flagged' \subseteq Uids
    BY <1>3 DEF Reflag, TypeOK
  <2> QED
    BY <1>3, <2>1 DEF Reflag, TypeOK, InHand, Examined, memory, disk, history, mail, Uids
<1>4. CASE Commands
  BY <1>4, CommandsStay DEF TypeOK, InHand, Examined, server, memory, history, mail, Uids
<1>5. CASE RequestStop
  BY <1>5 DEF RequestStop, TypeOK, InHand, Examined, server, disk, history, mail, Uids
<1> QED
  BY <1>1, <1>2, <1>3, <1>4, <1>5

(* The loop of a poll, up to the first checks.                             *)
LEMMA TypeOfPolling ==
    ASSUME TInv,
           \/ Poll \/ Fetch \/ EndPoll \/ Exit \/ Skip
           \/ ReadInvitation \/ FileInvitation \/ Examine \/ Unhandled
    PROVE  TInv'
<1> USE DEF TInv, TypeOK, InHand, Examined, Goto, Stay, Continue, Ends,
            server, memory, disk, history, Uids, mail
<1>1. CASE Poll
  <2>1. todo' \subseteq Uids
    BY <1>1 DEF Poll, OldestOf, Candidates
  <2> QED
    BY <1>1, <2>1 DEF Poll
<1>2. CASE Fetch
  BY <1>2 DEF Fetch
<1>3. CASE EndPoll
  BY <1>3 DEF EndPoll
<1>4. CASE Exit
  BY <1>4 DEF Exit
<1>5. CASE Skip
  BY <1>5 DEF Skip
<1>6. CASE FileInvitation
  BY <1>6 DEF FileInvitation
<1>7. CASE Examine
  BY <1>7 DEF Examine, Acceptable
<1>8. CASE ReadInvitation
  BY <1>8 DEF ReadInvitation
<1>9. CASE Unhandled
  BY <1>9 DEF Unhandled, Abandons
<1> QED
  BY <1>1, <1>2, <1>3, <1>4, <1>5, <1>6, <1>7, <1>8, <1>9

(* The sender, the signature, and the record in memory.                    *)
LEMMA TypeOfOpening ==
    ASSUME TInv, KnownSender \/ LearnSender \/ Defer \/ Pin \/ Reject \/ Record
    PROVE  TInv'
<1> USE DEF TInv, TypeOK, InHand, Examined, Goto, Stay, Continue,
            server, memory, disk, history, Uids, mail
<1>1. CASE KnownSender
  BY <1>1 DEF KnownSender
<1>2. CASE LearnSender
  BY <1>2 DEF LearnSender
<1>3. CASE Defer
  BY <1>3 DEF Defer
<1>4. CASE Pin
  BY <1>4 DEF Pin
<1>5. CASE Reject
  BY <1>5 DEF Reject
<1>6. CASE Record
  <2>1. mail.msg \in Message
    BY <1>6, MailInHand, MailAssumption DEF Record
  <2>2. seen' \subseteq Message
    BY <1>6, <2>1, PruneShrinks DEF Record, Remember
  <2>3. recorded' = recorded \cup {mail.msg}
    BY <1>6 DEF Record
  <2> QED
    BY <1>6, <2>1, <2>2, <2>3 DEF Record
<1> QED
  BY <1>1, <1>2, <1>3, <1>4, <1>5, <1>6

(* The writes, and the start of the process.                               *)
LEMMA TypeOfDelivering ==
    ASSUME TInv, Save \/ WriteBody \/ WriteSidecar \/ Flag \/ Restart
    PROVE  TInv'
<1> USE DEF TInv, TypeOK, InHand, Examined, Goto, Stay, Continue,
            server, memory, disk, history, Uids, mail
<1>1. pc \in Examined => mail.msg \in Message
  BY MailInHand, MailAssumption
<1>2. CASE Save
  BY <1>1, <1>2 DEF Save
<1>3. CASE WriteBody
  BY <1>1, <1>3 DEF WriteBody
<1>4. CASE WriteSidecar
  BY <1>1, <1>4 DEF WriteSidecar
<1>5. CASE Flag
  BY <1>5 DEF Flag
<1>6. CASE Restart
  <2>1. seen' \subseteq Message
    BY <1>6, PruneShrinks DEF Restart
  <2> QED
    BY <1>6, <2>1 DEF Restart
<1> QED
  BY <1>2, <1>3, <1>4, <1>5, <1>6

(* Whatever goes wrong.                                                    *)
LEMMA TypeOfFaults ==
    ASSUME TInv, Crash \/ WriteFails \/ ConnectionFails \/ FetchRefused \/ StoreFails
    PROVE  TInv'
<1> USE DEF TInv, TypeOK, InHand, Examined, Continue, Ends, Abandons,
            server, memory, disk, history, Uids, mail
<1>1. CASE Crash
  BY <1>1 DEF Crash
<1>2. CASE WriteFails
  BY <1>2 DEF WriteFails
<1>3. CASE ConnectionFails
  BY <1>3 DEF ConnectionFails
<1>4. CASE FetchRefused
  BY <1>4 DEF FetchRefused
<1>5. CASE StoreFails
  BY <1>5 DEF StoreFails
<1> QED
  BY <1>1, <1>2, <1>3, <1>4, <1>5

(* The types, and what is known of the mail in hand, hold at first,        *)
LEMMA TypeInitial == Init => TInv
<1> SUFFICES ASSUME Init PROVE TInv
  OBVIOUS
<1>1. box \in Seq(Mail) /\ flagged \subseteq Uids /\ now \in Times
  BY DEF Init
<1>2. UNION {seen, file, body, sidecar, recorded, saved} \subseteq Message
  BY DEF Init
<1>3. pc = "idle" /\ stopping = FALSE /\ todo = {} /\ cur = 0
  BY DEF Init
<1> QED
  BY <1>1, <1>2, <1>3 DEF TInv, TypeOK, InHand, Examined

(* and every step keeps them.                                              *)
LEMMA TypeStep == TInv /\ [Next]_vars => TInv'
<1> SUFFICES ASSUME TInv, [Next]_vars PROVE TInv'
  OBVIOUS
<1>1. CASE Process
  BY <1>1, TypeOfPolling, TypeOfOpening, TypeOfDelivering DEF Process
<1>2. CASE \/ \E m \in Mail : Arrive(m)
           \/ Tick
           \/ \E u \in Uids : Reflag(u)
           \/ Commands \/ RequestStop
  BY <1>2, TypeOfEnvironment
<1>3. CASE Crash \/ WriteFails \/ ConnectionFails \/ FetchRefused \/ StoreFails
  BY <1>3, TypeOfFaults
<1>4. CASE UNCHANGED vars
  BY <1>4 DEF vars, TInv, TypeOK, InHand, Examined, server, memory, disk, history, Uids, mail
<1> QED
  BY <1>1, <1>2, <1>3, <1>4 DEF Next

LEMMA TypeHolds == Spec => []TInv
  BY TypeInitial, TypeStep, PTL DEF Spec

(* The mail in hand is the one uid that the loop has taken off the search  *)
(* and not yet done with, and every record holds messages.                 *)
THEOREM TypeCorrect == Spec => []TypeOK
<1>1. TInv => TypeOK
  BY DEF TInv
<1> QED
  BY <1>1, TypeHolds, PTL

-----------------------------------------------------------------------------
(* What is on record.                                                      *)

Genuine(m) == m.kind = "message" /\ m.toMe /\ m.genuine
Arrived(r) == \E u \in Uids : Genuine(box[u]) /\ box[u].msg = r

(* Memory and file hold only messages that were recorded, and those came   *)
(* in genuine mail; what is in the inbox was saved before.                 *)
RecordsInv ==
    /\ seen \cup file \cup saved \subseteq recorded
    /\ \A r \in recorded : Arrived(r)
    /\ sidecar \subseteq body /\ body \subseteq saved

(* The mailbox keeps its mail, and time does not go back.                  *)
LEMMA MailboxStays ==
    ASSUME TInv, [Next]_vars
    PROVE  /\ Uids \subseteq Uids' /\ \A u \in Uids : box'[u] = box[u]
           /\ now \in Nat /\ now' \in Nat /\ now <= now'
           /\ box' = box \/ \E m \in Mail : Arrive(m)
<1>1. now \in Nat
  BY TimesAssumption DEF TInv, TypeOK
<1>2. ASSUME NEW m \in Mail, Arrive(m)
      PROVE  Uids \subseteq Uids' /\ (\A u \in Uids : box'[u] = box[u]) /\ now' = now
  BY <1>2, BoxGrows DEF TInv, Arrive
<1>3. CASE UNCHANGED box /\ (now' = now \/ now' = now + 1)
  BY <1>1, <1>3 DEF Uids
<1>4. CASE Process
  BY <1>3, <1>4 DEF Process, Poll, Fetch, EndPoll, Exit, Skip, ReadInvitation, FileInvitation,
     Examine, Unhandled, Abandons, KnownSender, LearnSender, Defer, Pin, Reject, Record, Save, WriteBody, WriteSidecar,
     Flag, Restart, Goto, Stay, Continue, Ends, server
<1>5. CASE Tick \/ RequestStop \/ (\E u \in Uids : Reflag(u)) \/ Commands
  BY <1>3, <1>5, CommandsStay DEF Tick, RequestStop, Reflag, server
<1>6. CASE Crash \/ WriteFails \/ ConnectionFails \/ FetchRefused \/ StoreFails
  BY <1>3, <1>6 DEF Crash, WriteFails, ConnectionFails, FetchRefused, StoreFails,
     Abandons, Ends, server
<1>7. CASE UNCHANGED vars
  BY <1>3, <1>7 DEF vars, server
<1> QED
  BY <1>1, <1>2, <1>4, <1>5, <1>6, <1>7 DEF Next

(* All but five steps leave the records alone, or lose the memory.         *)
LEMMA RecordsStay ==
    ASSUME [Next]_vars
    PROVE  \/ Record \/ Save \/ WriteBody \/ WriteSidecar \/ Restart
           \/ UNCHANGED <<file, body, sidecar, recorded, saved>> /\ seen' \in {seen, {}}
<1> USE DEF server, memory, disk, history
<1>1. CASE Process
  BY <1>1 DEF Process, Poll, Fetch, EndPoll, Exit, Skip, ReadInvitation, FileInvitation,
     Examine, Unhandled, Abandons, KnownSender, LearnSender, Defer, Pin, Reject, Flag, Goto, Stay, Continue, Ends
<1>2. CASE \/ \E m \in Mail : Arrive(m)
           \/ Tick
           \/ \E u \in Uids : Reflag(u)
           \/ Commands \/ RequestStop
  BY <1>2, CommandsStay DEF Arrive, Tick, Reflag, RequestStop
<1>3. CASE Crash \/ WriteFails \/ ConnectionFails \/ FetchRefused \/ StoreFails
  BY <1>3 DEF Crash, WriteFails, ConnectionFails, FetchRefused, StoreFails,
     Abandons, Ends, Continue
<1>4. CASE UNCHANGED vars
  BY <1>4 DEF vars
<1> QED
  BY <1>1, <1>2, <1>3, <1>4 DEF Next

LEMMA RecordsInitial == Init => RecordsInv
  BY DEF Init, RecordsInv

LEMMA RecordsStep == TInv /\ RecordsInv /\ [Next]_vars => RecordsInv'
<1> SUFFICES ASSUME TInv, RecordsInv, [Next]_vars PROVE RecordsInv'
  OBVIOUS
<1>1. \A r : Arrived(r) => Arrived(r)'
  BY MailboxStays DEF Arrived, Genuine
<1>2. CASE Record
  <2>1. cur \in Uids /\ Genuine(mail)
    BY <1>2, MailInHand DEF Record, TInv, InHand, Examined, Genuine
  <2>2. Arrived(mail.msg)
    BY <2>1 DEF Arrived, mail
  <2>3. seen' \subseteq seen \cup {mail.msg}
    BY <1>2, PruneShrinks DEF Record, Remember
  <2>4. recorded' = recorded \cup {mail.msg} /\ UNCHANGED <<file, saved, body, sidecar>>
    BY <1>2 DEF Record, disk
  <2> QED
    BY <1>1, <2>2, <2>3, <2>4 DEF RecordsInv
<1>3. CASE Save
  BY <1>1, <1>3 DEF Save, RecordsInv, memory, TInv, InHand
<1>4. CASE WriteBody
  BY <1>1, <1>4 DEF WriteBody, RecordsInv, memory, history, TInv, InHand
<1>5. CASE WriteSidecar
  BY <1>1, <1>5 DEF WriteSidecar, RecordsInv, memory, history, TInv, InHand
<1>6. CASE Restart
  <2>1. seen' \subseteq file
    BY <1>6, PruneShrinks DEF Restart
  <2> QED
    BY <1>1, <1>6, <2>1 DEF Restart, RecordsInv, disk, history
<1>7. CASE UNCHANGED <<file, body, sidecar, recorded, saved>> /\ seen' \in {seen, {}}
  BY <1>1, <1>7 DEF RecordsInv
<1> QED
  BY <1>2, <1>3, <1>4, <1>5, <1>6, <1>7, RecordsStay

LEMMA RecordsHold == Spec => [](TInv /\ RecordsInv)
  BY TypeInitial, TypeStep, RecordsInitial, RecordsStep, PTL DEF Spec

(* Whatever fails between the writes, the inbox lists whole messages, and  *)
(* only such as are on record.                                             *)
THEOREM InboxIsWhole == Spec => []InboxShowsWholeMessages
<1>1. RecordsInv => InboxShowsWholeMessages
  BY DEF RecordsInv, InboxShowsWholeMessages
<1> QED
  BY <1>1, RecordsHold, PTL

-----------------------------------------------------------------------------
(* Who becomes a contact.                                                  *)

WroteWithKey(f) ==
    \E u \in Uids : box[u].kind = "message" /\ Learnable(box[u]) /\ box[u].from = f
Explained(f) == f \in Known \cup Importable \/ WroteWithKey(f)
ContactsInv ==
    /\ \A f \in contacts \cup contactsFile : Explained(f)
    /\ \A copy \in copies : \A f \in copy : Explained(f)

(* Few steps touch the contacts; of the others some lose the copy of them. *)
LEMMA ContactsStay ==
    ASSUME [Next]_vars
    PROVE  \/ LearnSender \/ Pin \/ Restart \/ LoadCopy \/ Import \/ RemoveContact
           \/ UNCHANGED <<contactsFile, copies>> /\ contacts' \in {contacts, {}}
<1> USE DEF server, memory, disk, others, history
<1>1. CASE Process
  BY <1>1 DEF Process, Poll, Fetch, EndPoll, Exit, Skip, ReadInvitation, FileInvitation,
     Examine, Unhandled, Abandons, KnownSender, Defer, Reject, Record, Save, WriteBody, WriteSidecar, Flag,
     Goto, Stay, Continue, Ends
<1>2. CASE (\E m \in Mail : Arrive(m)) \/ Tick \/ (\E u \in Uids : Reflag(u)) \/ RequestStop \/ Decide
  BY <1>2 DEF Arrive, Tick, Reflag, RequestStop, Decide
<1>3. CASE Crash \/ WriteFails \/ ConnectionFails \/ FetchRefused \/ StoreFails
  BY <1>3 DEF Crash, WriteFails, ConnectionFails, FetchRefused, StoreFails,
     Abandons, Ends, Continue
<1>4. CASE UNCHANGED vars
  BY <1>4 DEF vars
<1> QED
  BY <1>1, <1>2, <1>3, <1>4 DEF Next, Commands

LEMMA ContactsInitial == Init => ContactsInv
  BY DEF Init, ContactsInv, Explained

LEMMA ContactsStep == TInv /\ ContactsInv /\ [Next]_vars => ContactsInv'
<1> SUFFICES ASSUME TInv, ContactsInv, [Next]_vars PROVE ContactsInv'
  OBVIOUS
<1>1. \A f : Explained(f) => Explained(f)'
  BY MailboxStays DEF Explained, WroteWithKey, Learnable
<1>2. CASE LearnSender
  <2>1. cur \in Uids /\ mail.kind = "message" /\ Learnable(mail)
    BY <1>2, MailInHand DEF LearnSender, TInv, InHand, Examined
  <2>2. Explained(mail.from)
    BY <2>1 DEF Explained, WroteWithKey, mail
  <2> QED
    BY <1>1, <1>2, <2>2 DEF LearnSender, ContactsInv, Goto, disk, others
<1>3. CASE Pin \/ Restart
  BY <1>1, <1>3 DEF Pin, Restart, ContactsInv, memory, disk, others
<1>4. CASE Import \/ RemoveContact
  <2>1. \A f \in Importable : Explained(f)
    BY DEF Explained
  <2>2. PICK copy : SaveCopy(copy) /\ \A f \in copy : Explained(f)
    <3>1. CASE Import
      BY <2>1, <3>1 DEF Import, ContactsInv
    <3>2. CASE RemoveContact
      BY <3>2 DEF RemoveContact, ContactsInv
    <3> QED
      BY <1>4, <3>1, <3>2
  <2>3. contacts' = contacts /\ copies' = copies /\ contactsFile' = copy
    BY <2>2 DEF SaveCopy, memory
  <2> QED
    BY <1>1, <2>2, <2>3 DEF ContactsInv
<1>5. CASE LoadCopy
  BY <1>1, <1>5 DEF LoadCopy, ContactsInv, memory, disk
<1>6. CASE UNCHANGED <<contactsFile, copies>> /\ contacts' \in {contacts, {}}
  BY <1>1, <1>6 DEF ContactsInv
<1> QED
  BY <1>2, <1>3, <1>4, <1>5, <1>6, ContactsStay

LEMMA ContactsHold == Spec => []ContactsInv
  BY TypeInitial, TypeStep, ContactsInitial, ContactsStep, PTL DEF Spec

(* A contact was one at first, was imported by an operator, or wrote a     *)
(* message with its key attached while learning is on: a request for       *)
(* contact, however often it is sent, is not enough.                       *)
THEOREM NobodyImportsThemselves == Spec => []NeverImportedOnItsOwn
<1>1. ContactsInv => NeverImportedOnItsOwn
  BY DEF ContactsInv, NeverImportedOnItsOwn, Introduced, Explained, WroteWithKey, InMailbox
<1> QED
  BY <1>1, ContactsHold, PTL

-----------------------------------------------------------------------------
(* What is flagged read.                                                   *)

(* Ids are random when they are made, so two genuine messages that may     *)
(* arrive do not share one unless they are the same.                       *)
IdsAreUnique ==
    \A m, n \in Mail : Genuine(m) /\ Genuine(n) /\ m.msg.id = n.msg.id => m.msg = n.msg

(* A sender's clock is ahead of the receiver's by the allowance at most.   *)
ClocksAgree == Ahead \in 0..MaxSkew

NothingFromTheFuture ==
    \A u \in Uids : box[u].kind = "message" => box[u].msg.ts <= now + Ahead

LEMMA FutureInitial == Init => NothingFromTheFuture
  BY DEF Init, NothingFromTheFuture, Uids

LEMMA FutureStep ==
    ASSUME ClocksAgree, TInv, NothingFromTheFuture, [Next]_vars
    PROVE  NothingFromTheFuture'
<1>1. Ahead \in Nat
  BY WindowAssumption DEF ClocksAgree
<1>2. \A u \in Uids : box[u].kind = "message" => box[u].msg.ts \in Nat
  BY MailAssumption, MessageAssumption DEF TInv, TypeOK, Uids
<1>3. \A u \in Uids : box'[u].kind = "message" => box'[u].msg.ts <= now' + Ahead
  BY <1>1, <1>2, MailboxStays DEF NothingFromTheFuture
<1>4. ASSUME NEW m \in Mail, Arrive(m) PROVE NothingFromTheFuture'
  <2>1. Len(box) \in Nat /\ Uids = 1..Len(box)
    BY DEF TInv, TypeOK, Uids
  <2>2. box' = Append(box, m) /\ now' = now
    BY <1>4 DEF Arrive
  <2>3. \A u \in Uids' : u \in Uids \/ box'[u] = m
    BY <2>1, <2>2 DEF TInv, TypeOK, Uids
  <2> QED
    BY <1>3, <1>4, <2>2, <2>3 DEF Arrive, NothingFromTheFuture
<1>5. CASE UNCHANGED box
  BY <1>3, <1>5 DEF NothingFromTheFuture, Uids
<1> QED
  BY <1>4, <1>5, MailboxStays

(* The record may be what makes a message unwelcome: then it is the very   *)
(* message that was recorded.  Or it has expired.                          *)
LEMMA RefusedForAReason ==
    ASSUME IdsAreUnique, ClocksAgree, TInv, RecordsInv, NothingFromTheFuture,
           pc = "fetched", Wanted(mail), ~Acceptable(mail)
    PROVE  mail.msg \in recorded \/ Expired(mail)
<1>1. cur \in Uids /\ mail \in Mail /\ Genuine(mail) /\ mail.msg \in Message
  BY MailInHand, MailAssumption DEF TInv, Wanted, Genuine
<1>2. CASE ~Unseen(mail.msg.id, seen)
  <2>1. PICK r \in seen : r.id = mail.msg.id
    BY <1>2 DEF Unseen
  <2>2. PICK u \in Uids : Genuine(box[u]) /\ box[u].msg = r
    BY DEF RecordsInv, Arrived
  <2>3. box[u] \in Mail
    BY DEF TInv, TypeOK, Uids
  <2>4. box[u].msg = mail.msg
    BY <1>1, <2>1, <2>2, <2>3 DEF IdsAreUnique
  <2> QED
    BY <2>2, <2>4 DEF RecordsInv
<1>3. CASE ~Fresh(mail.msg.ts, now)
  <2>1. mail.msg.ts \in Nat /\ now \in Nat /\ Ahead \in Nat /\ Ahead <= MaxSkew
    BY <1>1, MessageAssumption, TimesAssumption, WindowAssumption
       DEF TInv, TypeOK, ClocksAgree
  <2>2. mail.msg.ts <= now + Ahead
    BY <1>1 DEF NothingFromTheFuture, Genuine, mail
  <2> QED
    BY <1>1, <1>3, <2>1, <2>2, WindowAssumption DEF Fresh, Expired, Genuine
<1> QED
  BY <1>2, <1>3 DEF Acceptable, Wanted

LEMMA DroppedStep ==
    ASSUME IdsAreUnique, ClocksAgree, TInv, RecordsInv, NothingFromTheFuture,
           NothingWantedIsDropped, [Next]_vars
    PROVE  NothingWantedIsDropped'
<1> SUFFICES ASSUME pc' = "flag", Wanted(mail)'
             PROVE  (mail.msg \in recorded \/ Expired(mail))'
  BY DEF NothingWantedIsDropped
<1>1. recorded \subseteq recorded'
  BY RecordsStay DEF Record, Save, WriteBody, WriteSidecar, Restart, memory, disk, history
<1>2. CASE pc = "flag" /\ UNCHANGED <<pc, cur>>
  <2>1. mail' = mail /\ mail \in Mail
    BY <1>2, MailInHand, MailboxStays DEF TInv, mail
  <2>2. mail.msg \in recorded \/ Expired(mail)
    BY <1>2, <2>1 DEF NothingWantedIsDropped, Wanted, Learnable
  <2>3. CASE Expired(mail)
    <3>1. mail.msg.ts \in Nat
      BY <2>1, <2>3, MailAssumption, MessageAssumption DEF Expired
    <3> QED
      BY <2>1, <2>3, <3>1, MailboxStays, WindowAssumption DEF Expired
  <2> QED
    BY <1>1, <2>1, <2>2, <2>3
<1>3. CASE /\ pc' = "flag" /\ UNCHANGED <<box, cur, now, recorded>>
           /\ \/ mail.kind \in {"invitation", "badInvitation"}
              \/ pc = "fetched" /\ ~Acceptable(mail)
  BY <1>3, RefusedForAReason DEF Wanted, Learnable, Expired, mail
<1>4. CASE Reject \/ WriteSidecar
  BY <1>4 DEF Reject, WriteSidecar, Stay, Goto, memory, server, disk, history, Wanted,
     TInv, InHand, mail, Expired
<1>5. CASE Process
  <2> USE DEF Goto, Stay, Continue, Ends, server, memory, disk, history
  <2>1. CASE ReadInvitation \/ FileInvitation \/ Examine
    BY <1>3, <2>1 DEF ReadInvitation, FileInvitation, Examine, TInv, InHand
  <2>2. ~(Poll \/ Fetch \/ EndPoll \/ Exit \/ Skip \/ Unhandled \/ KnownSender
          \/ LearnSender \/ Defer \/ Pin)
    BY DEF Poll, Fetch, EndPoll, Exit, Skip, Unhandled, Abandons, KnownSender, LearnSender,
           Defer, Pin
  <2>3. ~(Record \/ Save \/ WriteBody \/ Flag \/ Restart)
    BY DEF Record, Save, WriteBody, Flag, Restart
  <2> QED
    BY <1>4, <1>5, <2>1, <2>2, <2>3 DEF Process
<1>6. CASE \/ \E m \in Mail : Arrive(m)
           \/ Tick
           \/ \E u \in Uids : Reflag(u)
           \/ Commands \/ RequestStop
  BY <1>2, <1>6, CommandsStay DEF Arrive, Tick, Reflag, RequestStop, memory
<1>7. CASE Crash \/ WriteFails \/ ConnectionFails \/ FetchRefused \/ StoreFails
  BY <1>2, <1>7 DEF Crash, WriteFails, ConnectionFails, FetchRefused, StoreFails,
     Abandons, Ends, Continue
<1>8. CASE UNCHANGED vars
  BY <1>2, <1>8 DEF vars, memory
<1> QED
  BY <1>5, <1>6, <1>7, <1>8 DEF Next

(* No crash, failed write, stop request or reflagging makes the receiver   *)
(* drop a message that it should read.                                     *)
THEOREM NothingWantedIsEverDropped ==
    ASSUME IdsAreUnique, ClocksAgree
    PROVE  Spec => []NothingWantedIsDropped
<1>1. Init => NothingWantedIsDropped
  BY DEF Init, NothingWantedIsDropped
<1>2. TInv /\ RecordsInv /\ NothingFromTheFuture /\ NothingWantedIsDropped /\ [Next]_vars
        => NothingFromTheFuture' /\ NothingWantedIsDropped'
  BY FutureStep, DroppedStep
<1> QED
  BY <1>1, <1>2, FutureInitial, RecordsHold, PTL DEF Spec

-----------------------------------------------------------------------------
(* Who vouches for what is delivered: a key that the receiver knows is in  *)
(* the file, but for one whose save failed, or that somebody else's save   *)
(* took out.                                                               *)

Pinned == {"pin", "open", "saving", "body", "sidecar"}
Kept == contactsFile \cup unkept
Trusts(u) == box[u].from \in Kept /\ (pc # "down" => box[u].from \in contacts \cup unkept)

VouchedInv ==
    /\ pc # "down" => \A f \in contacts : f \in Kept \/ (pc = "pin" /\ f = mail.from)
    /\ pc \in Pinned => mail.from \in contacts
    /\ \A b \in body : \E u \in Uids : Genuine(box[u]) /\ box[u].msg = b /\ Trusts(u)

(* The steps that neither learn, pin, load nor deliver, and are not saves  *)
(* of others: the contacts and the inbox stay, and so does the sender      *)
(* while one is being dealt with, unless the process dies or cannot save.  *)
LEMMA SenderStays ==
    ASSUME [Next]_vars
    PROVE  \/ KnownSender \/ LearnSender \/ Pin \/ WriteBody \/ Restart
           \/ Import \/ RemoveContact
           \/ /\ UNCHANGED <<contactsFile, body>> /\ unkept \subseteq unkept'
              /\ \/ pc' = "down"
                 \/ /\ contacts' = contacts /\ pc # "down"
                    /\ pc' \in Pinned => pc \in Pinned /\ cur' = cur
                    /\ pc' = "pin" => pc = "pin"
                    /\ pc = "pin" => pc' = "pin" \/ mail.from \in unkept'
<1> USE DEF server, memory, disk, others, history, Pinned
<1>1. CASE Process
  BY <1>1 DEF Process, Poll, Fetch, EndPoll, Exit, Skip, ReadInvitation, FileInvitation, Examine,
     Unhandled, Abandons, Defer, Reject, Record, Save, WriteSidecar, Flag, Goto, Stay, Continue, Ends
<1>2. CASE \/ \E m \in Mail : Arrive(m)
           \/ Tick \/ (\E u \in Uids : Reflag(u)) \/ RequestStop \/ LoadCopy \/ Decide
  BY <1>2 DEF Arrive, Tick, Reflag, RequestStop, LoadCopy, Decide
<1>3. CASE Crash \/ WriteFails \/ ConnectionFails \/ FetchRefused \/ StoreFails
  BY <1>3 DEF Crash, WriteFails, ConnectionFails, FetchRefused, StoreFails,
     Abandons, Ends, Continue
<1>4. CASE UNCHANGED vars
  BY <1>4 DEF vars
<1> QED
  BY <1>1, <1>2, <1>3, <1>4 DEF Next, Commands

LEMMA VouchedInitial == Init => VouchedInv
  BY DEF Init, VouchedInv, Pinned, Kept

LEMMA VouchedStep == TInv /\ VouchedInv /\ [Next]_vars => VouchedInv'
<1> SUFFICES ASSUME TInv, VouchedInv, [Next]_vars PROVE VouchedInv'
  OBVIOUS
<1> USE DEF Pinned, Kept, others
<1>1. pc \in Pinned => cur \in Uids
  BY MailInHand DEF TInv
<1>2. \A b : \A u \in Uids : Genuine(box[u]) /\ box[u].msg = b =>
          u \in Uids' /\ Genuine(box'[u]) /\ box'[u].msg = b /\ box'[u].from = box[u].from
  BY MailboxStays
<1>3. CASE KnownSender
  BY <1>3 DEF KnownSender, Stay, Goto, VouchedInv, Trusts, Uids, mail, server, memory, disk
<1>4. CASE LearnSender
  BY <1>4 DEF LearnSender, Goto, VouchedInv, Trusts, Uids, mail, server, disk
<1>5. CASE Pin
  BY <1>5 DEF Pin, VouchedInv, Trusts, Uids, mail, server, memory
<1>6. CASE WriteBody
  <2>1. cur \in Uids /\ Genuine(mail) /\ mail.from \in contacts /\ mail.from \in Kept
    BY <1>1, <1>6 DEF WriteBody, VouchedInv, TInv, InHand, Examined, Genuine
  <2> QED
    BY <1>6, <2>1 DEF WriteBody, VouchedInv, Trusts, Uids, mail, server, memory
<1>7. CASE Restart
  BY <1>7 DEF Restart, VouchedInv, Trusts, Uids, server, disk
<1>8. CASE Import \/ RemoveContact
  <2>1. PICK copy : SaveCopy(copy)
    BY <1>8 DEF Import, RemoveContact
  <2>2. Kept \subseteq Kept' /\ unkept \subseteq unkept'
    BY <2>1 DEF SaveCopy
  <2> QED
    BY <2>1, <2>2 DEF SaveCopy, VouchedInv, Trusts, Genuine, Uids, mail, server, memory
<1>9. CASE /\ UNCHANGED <<contactsFile, body>> /\ unkept \subseteq unkept'
           /\ \/ pc' = "down"
              \/ /\ contacts' = contacts /\ pc # "down"
                 /\ pc' \in Pinned => pc \in Pinned /\ cur' = cur
                 /\ pc' = "pin" => pc = "pin"
                 /\ pc = "pin" => pc' = "pin" \/ mail.from \in unkept'
  <2>1. pc' \in Pinned => mail' = mail \/ pc' = "down"
    BY <1>1, <1>9, MailboxStays DEF mail
  <2>2. \A b \in body : \E u \in Uids' :
            Genuine(box'[u]) /\ box'[u].msg = b /\ Trusts(u)'
    BY <1>2, <1>9 DEF VouchedInv, Trusts
  <2> QED
    BY <1>9, <2>1, <2>2 DEF VouchedInv, Genuine
<1> QED
  BY <1>3, <1>4, <1>5, <1>6, <1>7, <1>8, <1>9, SenderStays

LEMMA VouchedHolds == Spec => []VouchedInv
  BY VouchedInitial, VouchedStep, TypeInitial, TypeStep, PTL DEF Spec

(* What is delivered was written by somebody whose key was saved first; no *)
(* crash, restart or later save of the receiver takes it out of the file,  *)
(* whatever other processes load and save at the same time.                *)
THEOREM DeliveriesAreVouchedFor == Spec => []DeliveredIsVouchedFor
<1>1. VouchedInv => DeliveredIsVouchedFor
  BY DEF VouchedInv, DeliveredIsVouchedFor, Genuine, Trusts, Kept
<1> QED
  BY <1>1, VouchedHolds, PTL

(* What is on record is from a sender who was introduced.                  *)
Welcome(r) == \E u \in Uids : Genuine(box[u]) /\ box[u].msg = r /\ Explained(box[u].from)
WelcomeInv == \A r \in recorded : Welcome(r)

LEMMA WelcomeStep ==
    TInv /\ ContactsInv /\ VouchedInv /\ WelcomeInv /\ [Next]_vars => WelcomeInv'
<1> SUFFICES ASSUME TInv, ContactsInv, VouchedInv, WelcomeInv, [Next]_vars PROVE WelcomeInv'
  OBVIOUS
<1>1. \A r : Welcome(r) => Welcome(r)'
  BY MailboxStays DEF Welcome, Genuine, Explained, WroteWithKey, Learnable
<1>2. CASE Record
  <2>1. cur \in Uids /\ Genuine(mail) /\ mail.from \in contacts
    BY <1>2, MailInHand DEF Record, TInv, InHand, Examined, Genuine, VouchedInv, Pinned
  <2>2. Welcome(mail.msg)
    BY <2>1 DEF Welcome, ContactsInv, mail
  <2> QED
    BY <1>1, <1>2, <2>2 DEF Record, WelcomeInv
<1>3. CASE recorded' = recorded
  BY <1>1, <1>3 DEF WelcomeInv
<1> QED
  BY <1>2, <1>3, RecordsStay DEF Save, WriteBody, WriteSidecar, Restart, history

(* A mail that is rejected, at whatever check and with whatever id, or     *)
(* deferred because nobody introduced its sender, leaves nothing in the    *)
(* replay record.                                                          *)
THEOREM NoIdIsConsumed == Spec => []RejectionConsumesNoId
<1>1. Init => WelcomeInv
  BY DEF Init, WelcomeInv
<1>2. RecordsInv /\ WelcomeInv => RejectionConsumesNoId
  BY DEF RecordsInv, RejectionConsumesNoId, InMailbox, Welcome, Genuine, WelcomeInv,
     Introduced, Explained, WroteWithKey
<1> QED
  BY <1>1, <1>2, WelcomeStep, TypeInitial, TypeStep, RecordsHold, ContactsHold, VouchedHolds,
     PTL DEF Spec

-----------------------------------------------------------------------------
(* The pipeline implements the replay guard.                               *)

(* What the guard sees of a step.                                          *)
guardMsg == IF guardStep \in {"idle", "down"} THEN NoMessage ELSE mail.msg
guardView == <<now, seen, file, guardStep, guardMsg, recorded, saved, body>>

(* The rules are those that both modules extend.                           *)
LEMMA SameRules ==
    /\ \A ts, t : Guard!Fresh(ts, t) <=> Fresh(ts, t)
    /\ \A id, S : Guard!Unseen(id, S) <=> Unseen(id, S)
    /\ \A S, t : Guard!Prune(S, t) = Prune(S, t)
    /\ \A S, m : Guard!Remember(S, m) = Remember(S, m)
<1>1. \A S, t : Guard!Live(S, t) = Live(S, t)
  BY DEF Guard!Live, Live
<1>2. \A S : Guard!Cardinality(S) = Cardinality(S)
  BY DEF Guard!Cardinality, Cardinality
<1>3. \A S : Guard!Newest(S) = Newest(S)
  BY <1>2 DEF Guard!Newest, Newest
<1> QED
  BY <1>1, <1>2, <1>3 DEF Guard!Fresh, Fresh, Guard!Unseen, Unseen, Guard!Prune, Prune,
     Guard!Remember, Remember

LEMMA GuardInitial == Init => Guard!Init
  BY DEF Init, Guard!Init, guardStep

(* A step that keeps the guard's view of the state is a stutter of it.     *)
LEMMA GuardStutters == ASSUME UNCHANGED guardView PROVE UNCHANGED Guard!vars
  BY DEF guardView, guardMsg, Guard!vars

(* While nothing is being opened or written, or nothing but the way        *)
(* through the checks changes, the guard has nothing to do.                *)
LEMMA GuardIdle ==
    ASSUME TInv, [Next]_vars, UNCHANGED <<now, seen, file, recorded, saved, body>>,
           \/ guardStep \in {"idle", "down"} /\ guardStep' = guardStep
           \/ guardStep' = guardStep /\ cur' = cur /\ pc \in Examined
    PROVE  UNCHANGED guardView
<1>1. pc \in Examined => cur \in Uids
  BY MailInHand DEF TInv, Examined
<1>2. cur \in Uids => box'[cur] = box[cur]
  BY MailboxStays
<1> QED
  BY <1>1, <1>2 DEF guardView, guardMsg, mail

(* A process that ends, for whatever reason, has crashed.                  *)
LEMMA GuardEnds == ASSUME pc # "down", Ends PROVE Guard!Crash
  BY DEF Ends, Guard!Crash, guardStep, server, disk, history

(* The environment and the steps around the checks.                        *)
LEMMA GuardInEnvironment ==
    ASSUME TInv, [Next]_vars,
           \/ \E m \in Mail : Arrive(m)
           \/ \E u \in Uids : Reflag(u)
           \/ Commands \/ RequestStop \/ Tick \/ UNCHANGED vars
    PROVE  [Guard!Next]_(Guard!vars)
<1>1. CASE Tick
  <2>1. now \in Nat /\ now' = now + 1 /\ now' \in Times
    BY <1>1, TimesAssumption DEF Tick, TInv, TypeOK
  <2>2. UNCHANGED <<seen, file, guardStep, guardMsg, recorded, saved, body>>
    BY <1>1 DEF Tick, guardStep, guardMsg, mail, memory, disk, history
  <2> QED
    BY <2>1, <2>2 DEF Guard!Next, Guard!Tick, guardMsg
<1>2. ASSUME ~Tick PROVE UNCHANGED <<now, pc, cur, seen, file, recorded, saved, body>>
  BY <1>2, CommandsStay DEF Arrive, Reflag, RequestStop, vars, server, memory, disk, history
<1>3. CASE ~Tick
  <2>1. pc \in Examined \/ guardStep \in {"idle", "down"}
    BY DEF guardStep, Examined
  <2>2. guardStep' = guardStep
    BY <1>2, <1>3 DEF guardStep
  <2> QED
    BY <1>2, <1>3, <2>1, <2>2, GuardIdle, GuardStutters
<1> QED
  BY <1>1, <1>3

LEMMA GuardInPolling ==
    ASSUME TInv, [Next]_vars,
           \/ Poll \/ Fetch \/ EndPoll \/ Exit \/ Skip
           \/ ReadInvitation \/ FileInvitation \/ Examine \/ Unhandled \/ Flag
    PROVE  [Guard!Next]_(Guard!vars)
<1> USE DEF Goto, Stay, Continue, server, memory, disk, history
<1>1. CASE Exit \/ (Unhandled /\ Ends)
  BY <1>1, GuardEnds DEF Exit, Unhandled, Guard!Next
<1>2. CASE Examine /\ Acceptable(mail)
  <2>1. mail.msg \in Message
    BY <1>2, MailInHand, MailAssumption DEF TInv, Examine, Acceptable
  <2>2. mail' = mail /\ pc = "fetched" /\ pc' = "sender"
    BY <1>2 DEF Examine, mail
  <2>3. Guard!Check(mail.msg)
    BY <1>2, <2>2, SameRules DEF Examine, Acceptable, Guard!Check, guardStep
  <2> QED
    BY <2>1, <2>3 DEF Guard!Next
<1>3. CASE Poll \/ Fetch \/ EndPoll \/ Skip \/ ReadInvitation \/ FileInvitation \/ Flag
           \/ (Examine /\ ~Acceptable(mail)) \/ (Unhandled /\ Abandons)
  <2> USE <1>3 DEF Poll, Fetch, EndPoll, Skip, ReadInvitation, FileInvitation, Flag, Examine,
                   Unhandled, Abandons
  <2>1. UNCHANGED <<now, seen, file, recorded, saved, body>>
    OBVIOUS
  <2>2. /\ pc \in {"idle", "next", "fetched", "filing", "flag"}
        /\ pc' \in {"idle", "next", "fetched", "filing", "flag"}
    OBVIOUS
  <2>3. guardStep = "idle" /\ guardStep' = "idle"
    BY <2>2 DEF guardStep
  <2> QED
    BY <2>1, <2>3, GuardIdle, GuardStutters
<1> QED
  BY <1>1, <1>2, <1>3 DEF Unhandled

LEMMA GuardInOpening ==
    ASSUME TInv, [Next]_vars,
           KnownSender \/ LearnSender \/ Defer \/ Pin \/ Reject \/ Record
    PROVE  [Guard!Next]_(Guard!vars)
<1> USE DEF Goto, Stay, Continue, server, memory, disk, history
<1>1. CASE KnownSender \/ LearnSender \/ Pin
  <2>1. UNCHANGED <<now, seen, file, recorded, saved, body, cur>>
    BY <1>1 DEF KnownSender, LearnSender, Pin
  <2>2. pc \in Examined /\ guardStep = "opening" /\ guardStep' = "opening"
    BY <1>1 DEF KnownSender, LearnSender, Pin, guardStep, Examined
  <2> QED
    BY <2>1, <2>2, GuardIdle, GuardStutters
<1>2. CASE Defer \/ Reject
  <2>1. Guard!Refuse
    BY <1>2 DEF Defer, Reject, Guard!Refuse, guardStep
  <2> QED
    BY <2>1 DEF Guard!Next
<1>3. CASE Record
  <2>1. mail' = mail /\ guardStep = "opening" /\ guardStep' = "saving"
    BY <1>3 DEF Record, mail, guardStep
  <2>2. Guard!Record
    BY <1>3, <2>1, SameRules DEF Record, Guard!Record
  <2> QED
    BY <2>2 DEF Guard!Next
<1> QED
  BY <1>1, <1>2, <1>3

LEMMA GuardInDelivering ==
    ASSUME TInv, [Next]_vars, Save \/ WriteBody \/ WriteSidecar \/ Restart
    PROVE  [Guard!Next]_(Guard!vars)
<1> USE DEF Stay, Goto, server, memory, disk, history
<1>1. CASE Save
  <2>1. mail' = mail /\ guardStep = "saving" /\ guardStep' = "delivering"
    BY <1>1 DEF Save, mail, guardStep
  <2>2. Guard!Save
    BY <1>1, <2>1 DEF Save, Guard!Save
  <2> QED
    BY <2>2 DEF Guard!Next
<1>2. CASE WriteBody
  <2>1. guardStep = "delivering" /\ guardStep' = "idle"
    BY <1>2 DEF WriteBody, guardStep
  <2>2. Guard!Deliver
    BY <1>2, <2>1 DEF WriteBody, Guard!Deliver
  <2> QED
    BY <2>2 DEF Guard!Next
<1>3. CASE WriteSidecar
  <2>1. UNCHANGED <<now, seen, file, recorded, saved, body>>
    BY <1>3 DEF WriteSidecar
  <2>2. guardStep = "idle" /\ guardStep' = "idle"
    BY <1>3 DEF WriteSidecar, guardStep
  <2> QED
    BY <2>1, <2>2, GuardIdle, GuardStutters
<1>4. CASE Restart
  <2>1. guardStep = "down" /\ guardStep' = "idle"
    BY <1>4 DEF Restart, guardStep
  <2>2. Guard!Restart
    BY <1>4, <2>1, SameRules DEF Restart, Guard!Restart
  <2> QED
    BY <2>2 DEF Guard!Next
<1> QED
  BY <1>1, <1>2, <1>3, <1>4

LEMMA GuardInFaults ==
    ASSUME TInv, [Next]_vars,
           Crash \/ WriteFails \/ ConnectionFails \/ FetchRefused \/ StoreFails
    PROVE  [Guard!Next]_(Guard!vars)
<1> USE DEF Continue, server, memory, disk, history
<1>1. CASE pc # "down" /\ Ends
  BY <1>1, GuardEnds DEF Guard!Next
<1>2. CASE (FetchRefused \/ StoreFails) \/ (ConnectionFails /\ Abandons)
           \/ (WriteFails /\ Abandons /\ guardStep = "idle")
  <2>1. UNCHANGED <<now, seen, file, recorded, saved, body>>
    BY <1>2 DEF FetchRefused, StoreFails, Abandons
  <2>2. guardStep = "idle" /\ guardStep' = "idle"
    BY <1>2 DEF FetchRefused, StoreFails, ConnectionFails, Abandons, guardStep
  <2> QED
    BY <2>1, <2>2, GuardIdle, GuardStutters
<1>3. CASE WriteFails /\ Abandons /\ pc = "pin"
  <2>1. Guard!Refuse
    BY <1>3 DEF Abandons, Guard!Refuse, guardStep
  <2> QED
    BY <2>1 DEF Guard!Next
<1>4. CASE WriteFails /\ Abandons /\ pc \in {"saving", "body"}
  <2>1. Guard!WriteFails
    BY <1>4 DEF Abandons, Guard!WriteFails, guardStep
  <2> QED
    BY <2>1 DEF Guard!Next
<1>5. WriteFails => guardStep = "idle" \/ pc \in {"pin", "saving", "body"}
  BY DEF WriteFails, guardStep
<1>6. Crash \/ WriteFails \/ ConnectionFails =>
          (pc # "down" /\ Ends) \/ ((WriteFails \/ ConnectionFails) /\ Abandons)
  BY DEF Crash, WriteFails, ConnectionFails
<1> QED
  BY <1>1, <1>2, <1>3, <1>4, <1>5, <1>6

(* Every step of the pipeline is a step of the replay guard or none of its *)
(* business: the two ways in which a poll may fail, the crash and the      *)
(* restart included.                                                       *)
THEOREM ImplementsGuard == Spec => ImplementsReplayGuard
<1>1. TInv /\ [Next]_vars => [Guard!Next]_(Guard!vars)
  <2> SUFFICES ASSUME TInv, [Next]_vars PROVE [Guard!Next]_(Guard!vars)
    OBVIOUS
  <2>1. CASE Process
    BY <2>1, GuardInPolling, GuardInOpening, GuardInDelivering DEF Process
  <2>2. CASE Crash \/ WriteFails \/ ConnectionFails \/ FetchRefused \/ StoreFails
    BY <2>2, GuardInFaults
  <2>3. CASE \/ \E m \in Mail : Arrive(m)
             \/ \E u \in Uids : Reflag(u)
             \/ Commands \/ RequestStop \/ Tick \/ UNCHANGED vars
    BY <2>3, GuardInEnvironment
  <2> QED
    BY <2>1, <2>2, <2>3 DEF Next
<1> QED
  BY <1>1, GuardInitial, TypeHolds, PTL DEF Spec, ImplementsReplayGuard, Guard!Spec

-----------------------------------------------------------------------------
(* What was proved of the guard holds of the pipeline, because the         *)
(* pipeline implements it: the theorems of ReplayGuardProofs, read with    *)
(* the receiver's state in place of the guard's.                           *)
Carried == INSTANCE ReplayGuardProofs WITH
    pc <- guardStep, msg <- guardMsg, high <- now, disk <- "intact",
    delivered <- body, ClockBack <- 0, DiskFaults <- FALSE

(* What is assumed of the guard's constants holds of the receiver's.       *)
LEMMA GuardConstants ==
    /\ FALSE \in BOOLEAN /\ 0 \in 0..MaxSkew /\ NoMessage \notin Message
    /\ MaxTracked \in Nat /\ MaxAge \in Nat /\ MaxSkew \in Nat /\ Times \subseteq Nat
    /\ Carried!IsFiniteSet(Message) /\ \A m \in Message : m.ts \in Nat
<1>1. Carried!IsFiniteSet(Message)
  BY MessageAssumption DEF Carried!IsFiniteSet, IsFiniteSet
<1> QED
  BY <1>1, MessageAssumption, TimesAssumption, WindowAssumption, MaxTrackedAssumption,
     NoMessageAssumption

(* Both instances of ReplayGuard have the same rules and the same steps.   *)
LEMMA OneGuard ==
    /\ Guard!Init => Carried!Init
    /\ [Guard!Next]_(Guard!vars) => [Carried!Next]_(Carried!vars)
<1>1. /\ \A ts, t : Carried!Fresh(ts, t) <=> Fresh(ts, t)
      /\ \A id, S : Carried!Unseen(id, S) <=> Unseen(id, S)
      /\ \A S, m : Carried!Remember(S, m) = Remember(S, m)
  BY DEF Carried!Fresh, Fresh, Carried!Unseen, Unseen, Carried!Remember, Remember
<1>2. \A S, t : Carried!Prune(S, t) = Prune(S, t)
  <2>1. \A S, t : Carried!Live(S, t) = Live(S, t)
    BY DEF Carried!Live, Live
  <2>2. \A S : Carried!Cardinality(S) = Cardinality(S)
    BY DEF Carried!Cardinality, Cardinality
  <2>3. \A S : Carried!Newest(S) = Newest(S)
    BY <2>2 DEF Carried!Newest, Newest
  <2> QED
    BY <2>1, <2>2, <2>3 DEF Carried!Prune, Prune
<1>3. Guard!Init => Carried!Init
  BY DEF Guard!Init, Carried!Init, guardMsg
<1> SUFFICES ASSUME [Guard!Next]_(Guard!vars) PROVE [Carried!Next]_(Carried!vars)
  BY <1>3
<1> USE DEF guardMsg
<1>4. CASE Guard!Tick
  BY <1>4 DEF Guard!Tick, Carried!Tick, Carried!Next
<1>5. ASSUME NEW m \in Message, Guard!Check(m) PROVE Carried!Check(m)
  BY <1>1, <1>5, SameRules DEF Guard!Check, Carried!Check
<1>6. CASE Guard!Refuse
  BY <1>6 DEF Guard!Refuse, Carried!Refuse, Carried!Next
<1>7. CASE Guard!Record
  BY <1>1, <1>2, <1>7, SameRules DEF Guard!Record, Carried!Record, Carried!Next
<1>8. CASE Guard!Save
  BY <1>8 DEF Guard!Save, Carried!Save, Carried!Next
<1>9. CASE Guard!Deliver
  BY <1>9 DEF Guard!Deliver, Carried!Deliver, Carried!Next
<1>10. CASE Guard!WriteFails
  BY <1>10 DEF Guard!WriteFails, Carried!WriteFails, Carried!Next
<1>11. CASE Guard!Crash
  BY <1>11 DEF Guard!Crash, Carried!Crash, Carried!Next
<1>12. CASE Guard!Damage
  BY <1>12 DEF Guard!Damage
<1>13. CASE Guard!Restart
  BY <1>2, <1>13, SameRules DEF Guard!Restart, Carried!Restart, Carried!Next
<1>14. CASE UNCHANGED Guard!vars
  BY <1>14 DEF Guard!vars, Carried!vars
<1> QED
  BY <1>4, <1>5, <1>6, <1>7, <1>8, <1>9, <1>10, <1>11, <1>12, <1>13, <1>14
     DEF Guard!Next, Carried!Next

LEMMA CarriedHolds == Spec => Carried!Spec
BY OneGuard, ImplementsGuard, PTL DEF ImplementsReplayGuard, Guard!Spec, Carried!Spec

(* No message is written to the inbox twice through polls, crashes,        *)
(* restarts, failed writes and lost connections (replay.py:9,              *)
(* receiver.py:133), unless more than MaxTracked messages at least as      *)
(* recent were recorded.                                                   *)
THEOREM WrittenAtMostOnce ==
    Spec => [](pc = "body" /\ mail.msg \in body => Guard!Crowded(mail.msg.ts))
<1>1. Carried!Spec => []Carried!AtMostOnce
  BY GuardConstants, Carried!AcceptedAtMostOnce
<1>2. Carried!AtMostOnce =>
        (pc = "body" /\ mail.msg \in body => Guard!Crowded(mail.msg.ts))
  <2>1. \A S : Carried!Cardinality(S) = Guard!Cardinality(S)
    BY DEF Carried!Cardinality, Guard!Cardinality
  <2> QED
    BY <2>1 DEF Carried!AtMostOnce, Carried!Crowded, Guard!Crowded, guardStep, guardMsg
<1> QED
  BY <1>1, <1>2, CarriedHolds, PTL

(* Below the cap, never.                                                   *)
THEOREM NeverWrittenTwice ==
    ASSUME Cardinality(Message) <= MaxTracked
    PROVE  Spec => [](pc = "body" => mail.msg \notin body)
<1>1. Carried!Cardinality(Message) <= MaxTracked
  BY DEF Carried!Cardinality, Cardinality
<1>2. Carried!Spec => []Carried!NothingProcessedTwice
  BY <1>1, GuardConstants, Carried!NothingTwiceBelowCap
<1>3. Carried!NothingProcessedTwice => (pc = "body" => mail.msg \notin body)
  BY DEF Carried!NothingProcessedTwice, guardStep, guardMsg
<1> QED
  BY <1>2, <1>3, CarriedHolds, PTL

(* What is in the inbox was recorded on disk first, and replay.json keeps  *)
(* answering for it until it has expired (receiver.py:133): a crash at any *)
(* point of a poll loses a message and never repeats one.                  *)
THEOREM RecordedBeforeWritten == Spec => []Guard!DurableBeforeDelivery
<1>1. Carried!Spec => []Carried!DurableBeforeDelivery
  BY GuardConstants, Carried!RecordedBeforeDelivery
<1>2. Carried!DurableBeforeDelivery => Guard!DurableBeforeDelivery
  <2>1. \A S : Carried!Cardinality(S) = Guard!Cardinality(S)
    BY DEF Carried!Cardinality, Guard!Cardinality
  <2>2. \A S, m : Carried!Answers(S, m) <=> Guard!Answers(S, m)
    BY <2>1 DEF Carried!Answers, Guard!Answers, Carried!Crowded, Guard!Crowded
  <2> QED
    BY <2>2 DEF Carried!DurableBeforeDelivery, Guard!DurableBeforeDelivery, guardMsg
<1> QED
  BY <1>1, <1>2, CarriedHolds, PTL

(* Below the cap the pipeline implements the promise that the guard makes: *)
(* a message that was accepted is delivered or lost and never met again,   *)
(* through polls, crashes, restarts and failures (replay.py:9).            *)
THEOREM ImplementsAcceptance ==
    ASSUME Cardinality(Message) <= MaxTracked
    PROVE  Spec => Guard!AcceptSpec
<1>1. Carried!Cardinality(Message) <= MaxTracked
  BY DEF Carried!Cardinality, Cardinality
<1>2. Carried!Spec => Carried!AcceptSpec
  BY <1>1, GuardConstants, Carried!ImplementsAcceptance
<1>3. Carried!AcceptSpec => Guard!AcceptSpec
  <2>1. Carried!life = Guard!life
    BY DEF Carried!life, Guard!life, guardMsg
  <2>2. Carried!life' = Guard!life'
    BY DEF Carried!life, Guard!life, guardMsg
  <2>3. Carried!Accept!Init => Guard!Accept!Init
    BY <2>1 DEF Carried!Accept!Init, Guard!Accept!Init
  <2>4. [Carried!Accept!Next]_(Carried!life) => [Guard!Accept!Next]_(Guard!life)
    BY <2>1, <2>2 DEF Carried!Accept!Next, Guard!Accept!Next,
       Carried!Accept!Claim, Guard!Accept!Claim, Carried!Accept!Release, Guard!Accept!Release,
       Carried!Accept!Deliver, Guard!Accept!Deliver, Carried!Accept!Lose, Guard!Accept!Lose,
       Carried!Accept!Becomes, Guard!Accept!Becomes
  <2> QED
    BY <2>3, <2>4, PTL DEF Carried!AcceptSpec, Carried!Accept!Spec, Guard!AcceptSpec, Guard!Accept!Spec
<1> QED
  BY <1>2, <1>3, CarriedHolds, PTL
=============================================================================
