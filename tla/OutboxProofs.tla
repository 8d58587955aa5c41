---------------------------- MODULE OutboxProofs ----------------------------
(***************************************************************************)
(* Proofs about Outbox for any handlers, commands, texts and contacts, and *)
(* any number of submissions, failures and crashes.                        *)
(*                                                                         *)
(* What may go out twice hangs on what the user was told: a text that no   *)
(* one submitted in haste is in the hands of one sender at most, and not   *)
(* reported as sent before (UserInv); so every message that the server     *)
(* accepted is in doubt, reported as sent, or in those hands (MailInv).    *)
(* The order rests on the lock: of the handlers only one at a time is      *)
(* between sealing and handing over (OInv).                                *)
(***************************************************************************)
EXTENDS Outbox, TLAPS

Fps == {c.fp : c \in Contact \cup Stranger}
Messages == [text : Text, to : Fps, id : Nat, by : Sender]
Requests == [text : Text \cup {None}, to : Fps \cup {None}, id : Nat]

Busy(s) == step[s] # "free"
HandedOver(s) == step[s] \in Accepted
Pending(s) == step[s] \in {"sealed", "connected", "secured"}
Outside == {"free", "resolved", "unlocked", "failed"}

RequestOK(s) ==
    /\ Busy(s) => req[s].text \in Text /\ req[s].to \in Fps
    /\ ~Busy(s) => req[s].text = None
    /\ req[s].id <= sealed

TInv ==
    /\ TypeOK
    /\ contacts \subseteq Contact \cup Stranger
    /\ DOMAIN step = Sender /\ req \in [Sender -> Requests] /\ DOMAIN link = Sender
    /\ sealed \in Nat /\ relayed \in Seq(Messages)
    /\ \A s \in Sender : RequestOK(s)

(* Of texts that nobody submitted in haste. *)
Alone ==
    \A s, t \in Sender :
        Busy(s) /\ Busy(t) /\ req[s].text = req[t].text /\ req[s].text \notin hasty => s = t
Unsaid == \A s \in Sender : Busy(s) /\ req[s].text \notin hasty => told[req[s].text] # "sent"
UserInv == Alone /\ Unsaid

Traced == \A s \in Sender : HandedOver(s) => \E i \in DOMAIN relayed : relayed[i] = Entry(s)
Logged == \A s \in Handler : step[s] \in {"recorded", "unlocked"} => Entry(s) \in sent
Settled(i) ==
    \/ relayed[i].text \in hasty \/ relayed[i] \in doubt \/ told[relayed[i].text] = "sent"
    \/ \E s \in Sender : HandedOver(s) /\ relayed[i] = Entry(s)
MailInv ==
    /\ Traced /\ Logged /\ SentLogIsTrue /\ TwiceOnlyInDoubt
    /\ \A i \in DOMAIN relayed : Settled(i)

IInv == TInv /\ UserInv /\ MailInv

-----------------------------------------------------------------------------
(* The invariant holds at first.                                           *)
LEMMA Initially == Init => IInv
<1> SUFFICES ASSUME Init PROVE IInv
  OBVIOUS
<1>1. TypeOK
  <2>1. submitted \in 0..MaxSubmitted /\ faults \in 0..MaxFaults /\ lock = None /\ DOMAIN told = Text
    BY BoundsAssumption DEF Init
  <2>2. \A s \in Sender : step[s] = "free"
    BY DEF Init
  <2> QED
    BY <2>1, <2>2, SenderAssumption DEF TypeOK, Sender
<1>2. relayed \in Seq(Messages) /\ DOMAIN relayed = {} /\ sealed = 0 /\ sent = {}
  BY DEF Init
<1>3. \A s \in Sender : step[s] = "free" /\ req[s] = NoRequest
  BY DEF Init
<1>4. NoRequest \in Requests /\ NoRequest.text = None /\ NoRequest.id = 0
  BY DEF NoRequest, Requests
<1>5. req \in [Sender -> Requests]
  BY <1>4 DEF Init
<1>6. \A s \in Sender : ~Busy(s) /\ ~HandedOver(s)
  BY <1>3 DEF Busy, HandedOver, Accepted
<1>7. TInv
  BY <1>1, <1>2, <1>3, <1>4, <1>5, <1>6 DEF Init, TInv, RequestOK
<1>8. UserInv
  BY <1>6 DEF UserInv, Alone, Unsaid
<1>9. SentLogIsTrue
  BY DEF Init, SentLogIsTrue
<1>10. Logged
  BY <1>3 DEF Logged, Sender
<1>11. MailInv
  BY <1>2, <1>6, <1>9, <1>10 DEF MailInv, Traced, TwiceOnlyInDoubt
<1> QED
  BY <1>7, <1>8, <1>11 DEF IInv

-----------------------------------------------------------------------------
(* Types and the lock. *)

(* A submission is resolved, or answered at once.                          *)
LEMMA TypeOfSubmit ==
    ASSUME TInv, NEW s \in Sender, NEW x \in Text, NEW ref, Submit(s, x, ref)
    PROVE  /\ TInv' /\ ~Busy(s) /\ UNCHANGED <<sealed, relayed, sent, doubt>>
           /\ \A t \in Sender : t # s => step'[t] = step[t] /\ req'[t] = req[t]
           /\ \/ step'[s] = "free" /\ req' = req /\ hasty' = hasty
              \/ /\ step'[s] = "resolved" /\ req'[s].text = x /\ req'[s].id = 0
                 /\ hasty' = hasty \cup {y \in {x} : UnderWay(y)} /\ told' = told
           /\ told[x] # "sent"
           /\ \A y \in Text : told'[y] = "sent" <=> told[y] = "sent"
<1> USE DEF TInv
<1>0. /\ ~Busy(s) /\ step[s] = "free" /\ told[x] # "sent" /\ DOMAIN told = Text
      /\ UNCHANGED <<contacts, lock, link, sealed, relayed, sent, doubt, faults>>
  BY DEF Submit, Busy, TypeOK
<1>1. CASE Resolve(ref) = {} /\ Hears(x, "error") /\ UNCHANGED <<step, req, hasty, submitted>>
  <2>1. DOMAIN told' = Text /\ \A y \in Text : told'[y] = "sent" <=> told[y] = "sent"
    BY <1>0, <1>1 DEF Hears
  <2>2. \A t \in Sender : RequestOK(t)'
    BY <1>0, <1>1 DEF RequestOK, Busy
  <2>3. TypeOK'
    BY <1>0, <1>1, <2>1 DEF TypeOK
  <2> QED
    BY <1>0, <1>1, <2>1, <2>2, <2>3
<1>2. CASE \E c \in Resolve(ref) :
            /\ submitted < MaxSubmitted /\ submitted' = submitted + 1
            /\ step' = [step EXCEPT ![s] = "resolved"]
            /\ req' = [req EXCEPT ![s] = [text |-> x, to |-> c.fp, id |-> 0]]
            /\ hasty' = hasty \cup {y \in {x} : UnderWay(y)}
            /\ UNCHANGED told
  <2>1. PICK c \in contacts :
            /\ submitted < MaxSubmitted /\ submitted' = submitted + 1
            /\ step' = [step EXCEPT ![s] = "resolved"]
            /\ req' = [req EXCEPT ![s] = [text |-> x, to |-> c.fp, id |-> 0]]
    BY <1>2 DEF Resolve, Named, At
  <2>2. c.fp \in Fps
    BY DEF Fps
  <2>3. [text |-> x, to |-> c.fp, id |-> 0] \in Requests
    BY <2>2 DEF Requests
  <2>4. /\ step'[s] = "resolved" /\ req'[s] = [text |-> x, to |-> c.fp, id |-> 0]
        /\ \A t \in Sender : t # s => step'[t] = step[t] /\ req'[t] = req[t]
        /\ DOMAIN step' = Sender /\ req' \in [Sender -> Requests]
    BY <2>1, <2>3
  <2>5. \A t \in Sender : RequestOK(t)'
    BY <1>0, <2>2, <2>4 DEF RequestOK, Busy
  <2>6. submitted' \in 0..MaxSubmitted
    BY <2>1, BoundsAssumption DEF TypeOK
  <2>7. \A h \in Handler : lock' = h <=> step'[h] \notin Outside
    BY <1>0, <2>4 DEF TypeOK, Sender, Outside
  <2>8. TypeOK'
    BY <1>0, <1>2, <2>4, <2>6, <2>7 DEF TypeOK, Outside
  <2> QED
    BY <1>0, <1>2, <2>4, <2>5, <2>8
<1> QED
  BY <1>0, <1>1, <1>2 DEF Submit

GoesOn(s) == Seal(s) \/ Connect(s) \/ StartTls(s) \/ HandOver(s) \/ Quit(s) \/ Record(s)

(* A sender that goes on: of these steps, only Seal takes the lock. *)
LEMMA TypeOfGoingOn ==
    ASSUME TInv, NEW s \in Sender, GoesOn(s)
    PROVE  /\ TInv' /\ Busy(s) /\ Busy(s)' /\ UNCHANGED <<told, hasty, doubt>>
           /\ \A t \in Sender : step'[t] = (IF t = s THEN step'[s] ELSE step[t])
           /\ \A t \in Sender : t # s => req'[t] = req[t]
           /\ req'[s].text = req[s].text
           /\ Seal(s) => req'[s].id = sealed + 1 /\ sealed' = sealed + 1
           /\ ~Seal(s) => req' = req /\ sealed' = sealed
           /\ ~HandOver(s) => relayed' = relayed
           /\ ~Record(s) => sent' = sent
<1> USE DEF TInv
<1>0. /\ Busy(s) /\ UNCHANGED <<contacts, told, hasty, submitted, faults, doubt>>
      /\ \A t \in Sender : t # s => step'[t] = step[t] /\ link'[t] = link[t]
      /\ DOMAIN step' = Sender /\ DOMAIN link' = Sender
      /\ step'[s] \in {"sealed", "connected", "secured", "accepted", "quit", "recorded"}
      /\ ~Seal(s) => req' = req /\ sealed' = sealed
      /\ ~HandOver(s) => relayed' = relayed
      /\ ~Record(s) => sent' = sent
  BY DEF GoesOn, Seal, Connect, Opens, StartTls, HandOver, Quit, Record, Goes, user, Busy
<1>1. Seal(s) => /\ sealed' = sealed + 1 /\ req' = [req EXCEPT ![s].id = sealed + 1]
  BY DEF Seal
<1> PICK r : r = req[s]
  OBVIOUS
<1>2. r \in Requests /\ DOMAIN req = Sender
  OBVIOUS
<1>3. \A n \in Nat : [r EXCEPT !.id = n] \in Requests
  BY <1>2 DEF Requests
<1>4. \A n \in Nat : [r EXCEPT !.id = n].id = n /\ [r EXCEPT !.id = n].text = r.text
                     /\ [r EXCEPT !.id = n].to = r.to
  BY <1>2 DEF Requests
<1>5. Seal(s) => /\ req'[s] = [r EXCEPT !.id = sealed + 1] /\ DOMAIN req' = Sender
                 /\ \A t \in Sender : t # s => req'[t] = req[t]
  BY <1>1, <1>2
<1>6. Seal(s) => req' \in [Sender -> Requests]
  <2>1. ASSUME Seal(s), NEW t \in Sender PROVE req'[t] \in Requests
    BY <1>3, <1>5, <2>1
  <2>2. Seal(s) => req' = [t \in Sender |-> req'[t]]
    BY <1>1, <1>2
  <2> QED
    BY <2>1, <2>2
<1>7. /\ req'[s].text = r.text /\ req'[s].to = r.to
      /\ \A t \in Sender : t # s => req'[t] = req[t]
      /\ req' \in [Sender -> Requests] /\ sealed' \in Nat
      /\ Seal(s) => req'[s].id = sealed + 1
  <2>1. CASE Seal(s)
    <3>1. sealed + 1 \in Nat
      OBVIOUS
    <3>2. req'[s].text = r.text /\ req'[s].to = r.to /\ req'[s].id = sealed + 1
      BY <1>4, <1>5, <2>1, <3>1
    <3> QED
      BY <1>1, <1>5, <1>6, <2>1, <3>1, <3>2
  <2>2. CASE ~Seal(s)
    BY <1>0, <2>2
  <2> QED
    BY <2>1, <2>2
<1>8. \A t \in Sender : req'[t].id <= sealed'
  <2>1. \A t \in Sender : req[t].id \in Nat /\ req[t].id <= sealed
    BY DEF RequestOK, Requests
  <2>2. CASE Seal(s)
    BY <1>1, <1>7, <2>1, <2>2
  <2>3. CASE ~Seal(s)
    BY <1>0, <2>1, <2>3
  <2> QED
    BY <2>2, <2>3
<1>9. \A t \in Sender : RequestOK(t)'
  BY <1>0, <1>7, <1>8 DEF RequestOK, Busy
<1>10. relayed' \in Seq(Messages)
  <2>1. CASE HandOver(s)
    <3>1. req[s].text \in Text /\ req[s].to \in Fps /\ req[s].id \in Nat
      BY <1>0 DEF RequestOK, Requests
    <3>2. Entry(s) \in Messages
      BY <3>1 DEF Entry, Messages
    <3> QED
      BY <2>1, <3>2 DEF HandOver
  <2> QED
    BY <1>0, <2>1
<1>11. TypeOK'
  <2>1. lock' \in Handler \cup {None}
    BY DEF TypeOK, GoesOn, Seal, Connect, StartTls, HandOver, Quit, Record
  <2>2. \A h \in Handler : lock' = h <=> step'[h] \notin Outside
    <3>1. CASE Seal(s)
      BY <1>0, <3>1, SenderAssumption DEF TypeOK, Seal, Sender, Outside
    <3>2. CASE ~Seal(s)
      <4>1. lock' = lock /\ step[s] \notin Outside
        BY <3>2 DEF GoesOn, Connect, StartTls, HandOver, Quit, Record, Outside
      <4> QED
        BY <1>0, <4>1 DEF TypeOK, Sender, Outside
    <3> QED
      BY <3>1, <3>2
  <2>3. step'[s] \in {"secured", "accepted", "quit", "recorded"} => link'[s] = "tls"
    BY DEF TypeOK, GoesOn, Seal, Connect, StartTls, HandOver, Quit, Record, Goes
  <2> QED
    BY <1>0, <2>1, <2>2, <2>3 DEF TypeOK, Outside
<1>12. Busy(s)' /\ \A t \in Sender : step'[t] = (IF t = s THEN step'[s] ELSE step[t])
  BY <1>0 DEF Busy
<1>13. TInv'
  BY <1>0, <1>7, <1>9, <1>10, <1>11
<1> QED
  BY <1>0, <1>1, <1>7, <1>12, <1>13

GivesUp(s) == RefuseToSendInTheClear(s) \/ Fail(s) \/ AnswerLost(s)

(* A sender out of the lock: having given up, or having recorded.          *)
LEMMA TypeOfLeaving ==
    ASSUME TInv, NEW s \in Sender, GivesUp(s) \/ Unlock(s)
    PROVE  /\ TInv' /\ Busy(s) /\ UNCHANGED <<told, hasty, sent, req, sealed>>
           /\ step'[s] = IF Unlock(s) THEN "unlocked" ELSE "failed"
           /\ \A t \in Sender : t # s => step'[t] = step[t]
<1> USE DEF TInv
<1>1. Busy(s) /\ UNCHANGED <<contacts, told, hasty, submitted, sent, req, sealed>>
      /\ faults' \in 0..MaxFaults
  BY BoundsAssumption DEF GivesUp, RefuseToSendInTheClear, Fail, AnswerLost, Unlock, Leaves,
     Goes, user, Busy, Fault, TypeOK
<1>2. /\ lock' = IF lock = s THEN None ELSE lock
      /\ step'[s] \in {"failed", "unlocked"}
      /\ step'[s] = IF Unlock(s) THEN "unlocked" ELSE "failed"
      /\ \A t \in Sender : t # s => step'[t] = step[t] /\ link'[t] = link[t]
      /\ DOMAIN step' = Sender /\ DOMAIN link' = Sender
  <2>1. Leaves(s, "failed") \/ Leaves(s, "unlocked")
    BY DEF GivesUp, RefuseToSendInTheClear, Fail, AnswerLost, Unlock
  <2>2. Unlock(s) => step'[s] = "unlocked"
    BY DEF Unlock, Leaves, Goes
  <2>3. GivesUp(s) => step'[s] = "failed"
    BY DEF GivesUp, RefuseToSendInTheClear, Fail, AnswerLost, Leaves, Goes
  <2> QED
    BY <2>1, <2>2, <2>3 DEF Leaves, Goes
<1>3. relayed' \in Seq(Messages)
  <2>1. CASE AnswerLost(s)
    <3>1. req[s].text \in Text /\ req[s].to \in Fps /\ req[s].id \in Nat
      BY <1>1 DEF RequestOK, Requests
    <3>2. Entry(s) \in Messages
      BY <3>1 DEF Entry, Messages
    <3> QED
      BY <2>1, <3>2 DEF AnswerLost
  <2>2. CASE ~AnswerLost(s)
    BY <2>2 DEF GivesUp, RefuseToSendInTheClear, Fail, Unlock
  <2> QED
    BY <2>1, <2>2
<1>4. \A t \in Sender : RequestOK(t)'
  BY <1>1, <1>2 DEF RequestOK, Busy
<1>5. TypeOK'
  <2>1. lock' \in Handler \cup {None}
    BY <1>2 DEF TypeOK
  <2>2. \A h \in Handler : lock' = h <=> step'[h] \notin Outside
    BY <1>2, SenderAssumption DEF TypeOK, Sender, Outside
  <2> QED
    BY <1>1, <1>2, <2>1, <2>2 DEF TypeOK, Outside
<1> QED
  BY <1>1, <1>2, <1>3, <1>4, <1>5

EndsWith(s, answer) ==
    \/ Answer(s) /\ Ends(s, answer) /\ answer = (IF step[s] = "unlocked" THEN "sent" ELSE "error")
    \/ answer = "dropped" /\ (RecordFails(s) \/ RedirectLost(s))

(* The end of a request concerns one sender and one text only.             *)
LEMMA TypeOfEnds ==
    ASSUME TInv, NEW s \in Sender, NEW answer, EndsWith(s, answer)
    PROVE  /\ TInv' /\ Busy(s) /\ ~Busy(s)' /\ UNCHANGED <<hasty, sealed, relayed, sent>>
           /\ \A t \in Sender : t # s => step'[t] = step[t] /\ req'[t] = req[t]
           /\ \A x \in Text : told[x] = "sent" => told'[x] = "sent"
           /\ \A x \in Text : told'[x] = "sent" /\ told[x] # "sent" =>
                x = req[s].text /\ answer = "sent"
           /\ answer = "sent" => told'[req[s].text] = "sent" /\ step[s] = "unlocked"
<1> USE DEF TInv
<1>1. /\ Ends(s, answer) /\ Busy(s) /\ UNCHANGED sent /\ faults' \in 0..MaxFaults
      /\ \/ lock' = lock /\ link' = link /\ step[s] \in {"unlocked", "failed"}
         \/ lock' = (IF lock = s THEN None ELSE lock) /\ link' = [link EXCEPT ![s] = "none"]
      /\ answer = "sent" => step[s] = "unlocked"
  BY BoundsAssumption DEF EndsWith, Answer, RecordFails, RedirectLost, Busy, Fault, TypeOK
<1>2. req[s].text \in Text /\ DOMAIN told = Text
  BY <1>1 DEF RequestOK, TypeOK
<1>3. /\ step'[s] = "free" /\ req'[s] = NoRequest
      /\ \A t \in Sender : t # s => step'[t] = step[t] /\ req'[t] = req[t] /\ link'[t] = link[t]
      /\ UNCHANGED <<contacts, hasty, submitted, sealed, relayed>>
      /\ DOMAIN step' = Sender /\ DOMAIN link' = Sender
  BY <1>1 DEF Ends
<1>4. /\ DOMAIN told' = Text
      /\ \A x \in Text : x # req[s].text => told'[x] = told[x]
      /\ told'[req[s].text] = IF told[req[s].text] = "sent" THEN "sent" ELSE answer
  BY <1>1, <1>2 DEF Ends, Hears
<1>5. NoRequest \in Requests /\ NoRequest.text = None /\ NoRequest.id = 0
  BY DEF NoRequest, Requests
<1>6. req' \in [Sender -> Requests]
  <2>1. req' = [req EXCEPT ![s] = NoRequest]
    BY <1>1 DEF Ends
  <2> QED
    BY <1>5, <2>1
<1>7. \A t \in Sender : RequestOK(t)'
  BY <1>3, <1>5 DEF RequestOK, Busy
<1>8. TypeOK'
  <2>1. lock' \in Handler \cup {None}
    BY <1>1 DEF TypeOK
  <2>2. \A h \in Handler : lock' = h <=> step'[h] \notin Outside
    BY <1>1, <1>3, SenderAssumption DEF TypeOK, Sender, Outside
  <2> QED
    BY <1>1, <1>3, <1>4, <2>1, <2>2 DEF TypeOK, Outside
<1> QED
  BY <1>1, <1>3, <1>4, <1>6, <1>7, <1>8 DEF Busy

(* A process that dies takes its senders with it.                          *)
LEMMA TypeOfCrash ==
    ASSUME TInv, NEW S \in {Handler} \cup {{c} : c \in Cli}, Crash(S)
    PROVE  /\ TInv' /\ UNCHANGED <<hasty, sealed, relayed, sent>>
           /\ \A s \in Sender : IF s \in S THEN ~Busy(s)'
                                ELSE step'[s] = step[s] /\ req'[s] = req[s]
           /\ \A x \in Text : told'[x] = "sent" <=> told[x] = "sent"
<1> USE DEF TInv
<1>1. /\ \A s \in Sender : s \in S => step'[s] = "free" /\ req'[s] = NoRequest
      /\ \A s \in Sender : s \notin S => step'[s] = step[s] /\ req'[s] = req[s] /\ link'[s] = link[s]
      /\ DOMAIN step' = Sender /\ DOMAIN link' = Sender /\ DOMAIN told' = Text
      /\ UNCHANGED <<contacts, hasty, submitted, sealed, relayed, sent>>
      /\ lock' = IF lock \in S THEN None ELSE lock
      /\ faults' \in 0..MaxFaults
      /\ \A x \in Text : told'[x] = "sent" <=> told[x] = "sent"
  BY BoundsAssumption DEF Crash, Fault, TypeOK
<1>2. NoRequest \in Requests /\ NoRequest.text = None /\ NoRequest.id = 0
  BY DEF NoRequest, Requests
<1>3. req' \in [Sender -> Requests]
  BY <1>2 DEF Crash
<1>4. \A s \in Sender : RequestOK(s)'
  BY <1>1, <1>2 DEF RequestOK, Busy
<1>5. TypeOK'
  <2>1. lock' \in Handler \cup {None}
    BY <1>1 DEF TypeOK
  <2>2. \A h \in Handler : lock' = h <=> step'[h] \notin Outside
    <3>1. S = Handler \/ \A h \in Handler : h \notin S
      BY SenderAssumption
    <3> QED
      BY <1>1, <3>1, SenderAssumption DEF TypeOK, Sender, Outside
  <2> QED
    BY <1>1, <2>1, <2>2 DEF TypeOK, Outside
<1> QED
  BY <1>1, <1>3, <1>4, <1>5 DEF Busy

(* What goes on around the senders. *)
LEMMA TypeOfTheRest ==
    ASSUME TInv, UNCHANGED vars \/ \E c \in Stranger \ contacts : Learn(c)
    PROVE  TInv' /\ UNCHANGED <<step, req, sealed, relayed, sent, told, hasty, doubt>>
<1> USE DEF TInv
<1>1. UNCHANGED <<step, req, link, lock, sealed, relayed, sent, told, hasty, submitted, doubt, faults>>
  BY DEF Learn, vars, user
<1>2. contacts' \subseteq Contact \cup Stranger
  BY DEF Learn, vars
<1>3. TypeOK'
  BY <1>1 DEF TypeOK
<1>4. \A s \in Sender : RequestOK(s)'
  BY <1>1 DEF RequestOK, Busy
<1> QED
  BY <1>1, <1>2, <1>3, <1>4

(* The cases of a step that the proofs go through.                         *)
LEMMA NextSplits ==
    ASSUME [Next]_vars
    PROVE  \/ \E s \in Sender, x \in Text, ref \in Reference : Submit(s, x, ref)
           \/ \E s \in Sender : GoesOn(s)
           \/ \E s \in Sender : GivesUp(s) \/ Unlock(s)
           \/ \E s \in Sender, answer \in {"error", "dropped", "sent"} : EndsWith(s, answer)
           \/ \E S \in {Handler} \cup {{c} : c \in Cli} : Crash(S)
           \/ UNCHANGED vars \/ \E c \in Stranger \ contacts : Learn(c)
<1>1. ASSUME NEW s \in Sender, Answer(s) \/ RecordFails(s) \/ RedirectLost(s)
      PROVE  \E answer \in {"error", "dropped", "sent"} : EndsWith(s, answer)
  <2>1. CASE Answer(s)
    <3>1. CASE step[s] = "unlocked"
      BY <2>1, <3>1 DEF EndsWith, Answer
    <3>2. CASE step[s] # "unlocked"
      BY <2>1, <3>2 DEF EndsWith, Answer
    <3> QED
      BY <3>1, <3>2
  <2>2. CASE RecordFails(s) \/ RedirectLost(s)
    BY <2>2 DEF EndsWith
  <2> QED
    BY <1>1, <2>1, <2>2
<1> QED
  BY <1>1 DEF Next, Sends, GoesOn, GivesUp

(* Every step keeps the types.                                             *)
LEMMA TypeStep == TInv /\ [Next]_vars => TInv'
<1> SUFFICES ASSUME TInv, [Next]_vars PROVE TInv'
  OBVIOUS
<1>1. CASE \E s \in Sender, x \in Text, ref \in Reference : Submit(s, x, ref)
  BY <1>1, TypeOfSubmit
<1>2. CASE \E s \in Sender : GoesOn(s)
  BY <1>2, TypeOfGoingOn
<1>3. CASE \E s \in Sender : GivesUp(s) \/ Unlock(s)
  BY <1>3, TypeOfLeaving
<1>4. CASE \E s \in Sender, answer \in {"error", "dropped", "sent"} : EndsWith(s, answer)
  BY <1>4, TypeOfEnds
<1>5. CASE \E S \in {Handler} \cup {{c} : c \in Cli} : Crash(S)
  BY <1>5, TypeOfCrash
<1>6. CASE UNCHANGED vars \/ \E c \in Stranger \ contacts : Learn(c)
  BY <1>6, TypeOfTheRest
<1> QED
  BY <1>1, <1>2, <1>3, <1>4, <1>5, <1>6, NextSplits

(* The send lock is held by exactly the handler that is sealing, sending   *)
(* or recording, and nothing is handed over except through TLS ("Never     *)
(* fall back to plaintext", smtp.py:76), for any number of senders.        *)
THEOREM TypeCorrect == Spec => []TypeOK
<1>1. Init => TInv
  BY Initially DEF IInv
<1>2. TInv => TypeOK
  BY DEF TInv
<1> QED
  BY <1>1, <1>2, TypeStep, PTL DEF Spec

-----------------------------------------------------------------------------
(* What the user was told. *)

(* A step that nobody comes to be busy in tells of nothing as sent but     *)
(* what ends with it.                                                      *)
LEMMA UserKeeps ==
    ASSUME TInv, UserInv, hasty' = hasty,
           \A s \in Sender : Busy(s)' => Busy(s) /\ req'[s].text = req[s].text,
           \A x \in Text : told'[x] = "sent" =>
                told[x] = "sent" \/ \E s \in Sender : Busy(s) /\ ~Busy(s)' /\ req[s].text = x
    PROVE  UserInv'
<1>1. Alone'
  BY DEF UserInv, Alone
<1>2. Unsaid'
  <2>1. SUFFICES ASSUME NEW s \in Sender, Busy(s)', req'[s].text \notin hasty,
                        told'[req'[s].text] = "sent"
                 PROVE  FALSE
    BY DEF Unsaid
  <2>2. Busy(s) /\ req'[s].text = req[s].text /\ req[s].text \in Text
    BY <2>1 DEF TInv, RequestOK
  <2>3. told[req[s].text] # "sent"
    BY <2>1, <2>2 DEF UserInv, Unsaid
  <2>4. PICK t \in Sender : Busy(t) /\ ~Busy(t)' /\ req[t].text = req[s].text
    BY <2>1, <2>2, <2>3
  <2>5. t = s
    BY <2>1, <2>2, <2>4 DEF UserInv, Alone
  <2> QED
    BY <2>1, <2>4, <2>5
<1> QED
  BY <1>1, <1>2 DEF UserInv

LEMMA UserStep ==
    ASSUME TInv, UserInv, [Next]_vars
    PROVE  UserInv'
<1>1. ASSUME NEW s \in Sender, NEW x \in Text, NEW ref, Submit(s, x, ref) PROVE UserInv'
  <2>1. /\ ~Busy(s) /\ told[x] # "sent"
        /\ \A t \in Sender : t # s => step'[t] = step[t] /\ req'[t] = req[t]
        /\ \A y \in Text : told'[y] = "sent" <=> told[y] = "sent"
    BY <1>1, TypeOfSubmit
  <2>2. CASE step'[s] = "free" /\ req' = req /\ hasty' = hasty
    <3>1. \A t \in Sender : Busy(t)' => Busy(t) /\ req'[t].text = req[t].text
      BY <2>1, <2>2 DEF Busy
    <3> QED
      BY <2>1, <2>2, <3>1, UserKeeps
  <2>3. CASE /\ step'[s] = "resolved" /\ req'[s].text = x
             /\ hasty' = hasty \cup {y \in {x} : UnderWay(y)} /\ told' = told
    <3>1. \A t \in Sender : t # s /\ Busy(t)' => Busy(t) /\ req'[t].text = req[t].text
      BY <2>1 DEF Busy
    <3>2. ASSUME NEW t \in Sender, t # s, Busy(t)', req'[t].text = x PROVE x \in hasty'
      <4>1. UnderWay(x)
        BY <3>1, <3>2 DEF UnderWay
      <4> QED
        BY <2>3, <4>1
    <3>3. Alone'
      <4>1. SUFFICES ASSUME NEW t \in Sender, NEW u \in Sender, Busy(t)', Busy(u)',
                            req'[t].text = req'[u].text, req'[t].text \notin hasty'
                     PROVE  t = u
        BY DEF Alone
      <4>2. CASE t = s \/ u = s
        BY <2>3, <3>2, <4>1, <4>2
      <4>3. CASE t # s /\ u # s
        BY <2>3, <3>1, <4>1, <4>3 DEF UserInv, Alone
      <4> QED
        BY <4>2, <4>3
    <3>4. Unsaid'
      <4>1. SUFFICES ASSUME NEW t \in Sender, Busy(t)', req'[t].text \notin hasty'
                     PROVE  told[req'[t].text] # "sent"
        BY <2>3 DEF Unsaid
      <4>2. CASE t = s
        BY <2>1, <2>3, <4>2
      <4>3. CASE t # s
        BY <2>3, <3>1, <4>1, <4>3 DEF UserInv, Unsaid
      <4> QED
        BY <4>2, <4>3
    <3> QED
      BY <3>3, <3>4 DEF UserInv
  <2> QED
    BY <1>1, <2>2, <2>3, TypeOfSubmit
<1>2. ASSUME NEW s \in Sender, GoesOn(s) PROVE UserInv'
  <2>1. /\ Busy(s) /\ UNCHANGED <<told, hasty>>
        /\ \A t \in Sender : t # s => step'[t] = step[t] /\ req'[t] = req[t]
        /\ req'[s].text = req[s].text
    BY <1>2, TypeOfGoingOn
  <2>2. \A t \in Sender : Busy(t)' => Busy(t) /\ req'[t].text = req[t].text
    BY <2>1 DEF Busy
  <2> QED
    BY <2>1, <2>2, UserKeeps
<1>3. ASSUME NEW s \in Sender, GivesUp(s) \/ Unlock(s) PROVE UserInv'
  <2>1. /\ Busy(s) /\ UNCHANGED <<told, hasty, req>>
        /\ \A t \in Sender : t # s => step'[t] = step[t]
    BY <1>3, TypeOfLeaving
  <2>2. \A t \in Sender : Busy(t)' => Busy(t) /\ req'[t].text = req[t].text
    BY <2>1 DEF Busy
  <2> QED
    BY <2>1, <2>2, UserKeeps
<1>4. ASSUME NEW s \in Sender, NEW answer, EndsWith(s, answer) PROVE UserInv'
  <2>1. /\ Busy(s) /\ ~Busy(s)' /\ hasty' = hasty
        /\ \A t \in Sender : t # s => step'[t] = step[t] /\ req'[t] = req[t]
        /\ \A x \in Text : told'[x] = "sent" /\ told[x] # "sent" => x = req[s].text
    BY <1>4, TypeOfEnds
  <2>2. \A t \in Sender : Busy(t)' => Busy(t) /\ req'[t].text = req[t].text
    BY <2>1 DEF Busy
  <2> QED
    BY <2>1, <2>2, UserKeeps
<1>5. ASSUME NEW S \in {Handler} \cup {{c} : c \in Cli}, Crash(S) PROVE UserInv'
  <2>1. /\ hasty' = hasty /\ \A x \in Text : told'[x] = "sent" <=> told[x] = "sent"
        /\ \A s \in Sender : ~Busy(s)' \/ (step'[s] = step[s] /\ req'[s] = req[s])
    BY <1>5, TypeOfCrash
  <2>2. \A t \in Sender : Busy(t)' => Busy(t) /\ req'[t].text = req[t].text
    BY <2>1 DEF Busy
  <2> QED
    BY <2>1, <2>2, UserKeeps
<1>6. CASE UNCHANGED vars \/ \E c \in Stranger \ contacts : Learn(c)
  <2>1. UNCHANGED <<step, req, told, hasty>>
    BY <1>6, TypeOfTheRest
  <2>2. \A t \in Sender : Busy(t)' => Busy(t) /\ req'[t].text = req[t].text
    BY <2>1 DEF Busy
  <2> QED
    BY <2>1, <2>2, UserKeeps
<1> QED
  BY <1>1, <1>2, <1>3, <1>4, <1>5, <1>6, NextSplits

-----------------------------------------------------------------------------
(* The sent log, and what goes out twice. *)

(* What the server relayed are messages with a submitted text.             *)
LEMMA MessagesRelayed ==
    ASSUME TInv, NEW i \in DOMAIN relayed
    PROVE  relayed[i] \in Messages /\ relayed[i].text \in Text
<1>1. relayed \in Seq(Messages)
  BY DEF TInv
<1>2. relayed[i] \in Messages
  BY <1>1
<1> QED
  BY <1>2 DEF Messages

(* A step that hands nothing over: whoever had handed a message over still *)
(* has it, or it is in doubt, or reported as sent.                         *)
LEMMA NothingHandedOver ==
    ASSUME IInv, relayed' = relayed, doubt \subseteq doubt', sent \subseteq sent',
           hasty \subseteq hasty',
           \A x \in Text : told[x] = "sent" => told'[x] = "sent",
           \A x \in Text : told'[x] = "sent" => \/ told[x] = "sent"
                \/ \E s \in Sender : step[s] = "unlocked" /\ req[s].text = x,
           \A s \in Sender : HandedOver(s)' => HandedOver(s) /\ req'[s] = req[s],
           \A s \in Sender : HandedOver(s) =>
                \/ HandedOver(s)' /\ req'[s] = req[s]
                \/ Entry(s) \in doubt' \/ told'[req[s].text] = "sent",
           \A m \in sent' : m \in sent \/ \E s \in Sender : HandedOver(s) /\ m = Entry(s),
           \A s \in Handler : step'[s] \in {"recorded", "unlocked"} => Entry(s) \in sent'
    PROVE  MailInv'
<1>1. \A s \in Sender : req'[s] = req[s] => Entry(s)' = Entry(s)
  BY DEF Entry
<1>2. Traced'
  BY <1>1 DEF IInv, MailInv, Traced
<1>3. ToSet(relayed') = ToSet(relayed)
  OBVIOUS
<1>4. \A s \in Sender : HandedOver(s) => Entry(s) \in ToSet(relayed)
  BY DEF IInv, MailInv, Traced, ToSet
<1>5. SentLogIsTrue'
  <2>1. sent' \subseteq ToSet(relayed')
    BY <1>3, <1>4 DEF IInv, MailInv, SentLogIsTrue
  <2>2. ASSUME NEW x \in Text, told'[x] = "sent"
        PROVE  \E m \in ToSet(relayed') : m.text = x /\ (m.by \in Handler => m \in sent')
    <3>1. CASE told[x] = "sent"
      BY <1>3, <3>1 DEF IInv, MailInv, SentLogIsTrue
    <3>2. CASE \E s \in Sender : step[s] = "unlocked" /\ req[s].text = x
      <4>1. PICK s \in Sender : step[s] = "unlocked" /\ req[s].text = x
        BY <3>2
      <4>2. Entry(s) \in ToSet(relayed) /\ Entry(s).text = x /\ Entry(s).by = s
        BY <1>4, <4>1 DEF HandedOver, Accepted, Entry
      <4>3. s \in Handler => Entry(s) \in sent
        BY <4>1 DEF IInv, MailInv, Logged
      <4> QED
        BY <1>3, <4>2, <4>3
    <3> QED
      BY <2>2, <3>1, <3>2
  <2> QED
    BY <2>1, <2>2 DEF SentLogIsTrue
<1>6. TwiceOnlyInDoubt'
  BY DEF IInv, MailInv, TwiceOnlyInDoubt
<1>7. \A i \in DOMAIN relayed' : Settled(i)'
  <2>1. SUFFICES ASSUME NEW i \in DOMAIN relayed PROVE Settled(i)'
    OBVIOUS
  <2>2. Settled(i) /\ relayed[i].text \in Text
    BY MessagesRelayed DEF IInv, MailInv
  <2>3. CASE \E s \in Sender : HandedOver(s) /\ relayed[i] = Entry(s)
    <3>1. PICK s \in Sender : HandedOver(s) /\ relayed[i] = Entry(s)
      BY <2>3
    <3>2. relayed[i].text = req[s].text
      BY <3>1 DEF Entry
    <3> QED
      BY <1>1, <3>1, <3>2 DEF Settled
  <2>4. CASE \/ relayed[i].text \in hasty \/ relayed[i] \in doubt
             \/ told[relayed[i].text] = "sent"
    BY <2>2, <2>4 DEF Settled
  <2> QED
    BY <2>2, <2>3, <2>4 DEF Settled
<1>8. Logged'
  <2>1. \A s \in Handler : Entry(s)' = [text |-> req'[s].text, to |-> req'[s].to, id |-> req'[s].id, by |-> s]
    BY DEF Entry
  <2>2. ASSUME NEW s \in Handler, step'[s] \in {"recorded", "unlocked"} PROVE Entry(s)' \in sent'
    <3>1. HandedOver(s)' /\ s \in Sender
      BY <2>2 DEF HandedOver, Accepted, Sender
    <3>2. Entry(s)' = Entry(s)
      BY <1>1, <3>1
    <3> QED
      BY <2>2, <3>2
  <2> QED
    BY <2>2 DEF Logged
<1> QED
  BY <1>2, <1>5, <1>6, <1>7, <1>8 DEF MailInv

(* Whoever is about to hand a text over, without haste, is the first to do *)
(* so, but for messages in doubt.                                          *)
LEMMA FirstButForDoubt ==
    ASSUME IInv, NEW s \in Sender, Busy(s), ~HandedOver(s),
           NEW i \in DOMAIN relayed, relayed[i].text = req[s].text, req[s].text \notin hasty
    PROVE  relayed[i] \in doubt
<1>1. Settled(i)
  BY DEF IInv, MailInv
<1>2. told[relayed[i].text] # "sent"
  BY DEF IInv, UserInv, Unsaid
<1>3. ASSUME NEW t \in Sender, HandedOver(t), relayed[i] = Entry(t) PROVE FALSE
  <2>1. req[t].text = req[s].text /\ Busy(t)
    BY <1>3 DEF Entry, HandedOver, Accepted, Busy
  <2>2. t = s
    BY <1>3, <2>1 DEF IInv, UserInv, Alone
  <2> QED
    BY <1>3, <2>2
<1> QED
  BY <1>1, <1>2, <1>3 DEF Settled

(* A message is accepted: it is the sender's to report, or in doubt. *)
LEMMA OneHandedOver ==
    ASSUME IInv, TInv', NEW s \in Sender, Busy(s), ~HandedOver(s),
           relayed' = Append(relayed, Entry(s)), doubt \subseteq doubt', sent' = sent,
           hasty' = hasty, told' = told, req' = req,
           \A t \in Sender \ {s} : step'[t] = step[t],
           step'[s] \notin {"recorded", "unlocked"},
           HandedOver(s)' \/ Entry(s) \in doubt'
    PROVE  MailInv'
<1>n. PICK n \in Nat : n = Len(relayed)
  <2>1. relayed \in Seq(Messages)
    BY DEF IInv, TInv
  <2> QED
    BY <2>1
<1>0. /\ relayed \in Seq(Messages) /\ n \in Nat /\ DOMAIN relayed = 1..n
      /\ DOMAIN relayed' = 1..(n + 1) /\ relayed'[n + 1] = Entry(s)
      /\ \A i \in 1..n : relayed'[i] = relayed[i]
      /\ \A i \in 1..n : relayed[i].text \in Text
  <2>1. relayed \in Seq(Messages) /\ relayed' \in Seq(Messages)
    BY DEF IInv, TInv
  <2>2. Entry(s) \in Messages
    BY DEF Entry, Messages, IInv, TInv, RequestOK, Requests
  <2>3. \A i \in DOMAIN relayed : relayed[i].text \in Text
    BY MessagesRelayed DEF IInv
  <2> QED
    BY <1>n, <2>1, <2>2, <2>3
<1>1. \A t \in Sender : Entry(t)' = Entry(t)
  BY DEF Entry
<1>2. Traced'
  <2>1. SUFFICES ASSUME NEW t \in Sender, HandedOver(t)'
                 PROVE  \E i \in DOMAIN relayed' : relayed'[i] = Entry(t)'
    BY DEF Traced
  <2>2. CASE t = s
    <3>1. n + 1 \in DOMAIN relayed' /\ relayed'[n + 1] = Entry(t)'
      BY <1>0, <1>1, <2>1, <2>2
    <3> QED
      BY <3>1
  <2>3. CASE t # s
    <3>1. HandedOver(t)
      BY <2>1, <2>3 DEF HandedOver
    <3>2. PICK i \in 1..n : relayed[i] = Entry(t)
      BY <1>0, <3>1 DEF IInv, MailInv, Traced
    <3>3. i \in DOMAIN relayed' /\ relayed'[i] = Entry(t)'
      BY <1>0, <1>1, <3>2
    <3> QED
      BY <3>3
  <2> QED
    BY <2>2, <2>3
<1>3. SentLogIsTrue'
  <2>1. ToSet(relayed) \subseteq ToSet(relayed')
    <3>1. \A i \in 1..n : i \in 1..(n + 1)
      BY <1>0
    <3> QED
      BY <1>0, <3>1 DEF ToSet
  <2> QED
    BY <2>1 DEF IInv, MailInv, SentLogIsTrue
<1>4. \A i \in 1..n : relayed[i].text = req[s].text /\ req[s].text \notin hasty => relayed[i] \in doubt
  BY <1>0, FirstButForDoubt
<1>5. TwiceOnlyInDoubt'
  <2>1. SUFFICES ASSUME NEW i \in 1..(n + 1), NEW j \in 1..(n + 1), i < j,
                        relayed'[i].text = relayed'[j].text
                 PROVE  relayed'[i].text \in hasty' \/ relayed'[i] \in doubt'
    BY <1>0 DEF TwiceOnlyInDoubt
  <2>2. Entry(s).text = req[s].text
    BY DEF Entry
  <2>3. i \in 1..n
    BY <1>0, <2>1
  <2>4. CASE j \in 1..n
    BY <1>0, <2>1, <2>3, <2>4 DEF IInv, MailInv, TwiceOnlyInDoubt
  <2>5. CASE j = n + 1
    BY <1>0, <1>4, <2>1, <2>2, <2>3, <2>5
  <2> QED
    BY <1>0, <2>4, <2>5
<1>6. \A i \in DOMAIN relayed' : Settled(i)'
  <2>1. ASSUME NEW i \in 1..n PROVE Settled(i)'
    <3>1. Settled(i) /\ relayed'[i] = relayed[i]
      BY <1>0 DEF IInv, MailInv
    <3>2. \A t \in Sender : HandedOver(t) => HandedOver(t)' /\ Entry(t)' = Entry(t)
      BY <1>1 DEF HandedOver
    <3> QED
      BY <1>0, <3>1, <3>2 DEF Settled
  <2>2. Settled(n + 1)'
    BY <1>0, <1>1 DEF Settled
  <2> QED
    BY <1>0, <2>1, <2>2
<1>7. Logged'
  <2>1. ASSUME NEW h \in Handler, step'[h] \in {"recorded", "unlocked"} PROVE Entry(h)' \in sent'
    <3>1. h \in Sender /\ h # s /\ step'[h] = step[h]
      BY <2>1 DEF Sender
    <3> QED
      BY <1>1, <2>1, <3>1 DEF IInv, MailInv, Logged
  <2> QED
    BY <2>1 DEF Logged
<1> QED
  BY <1>2, <1>3, <1>5, <1>6, <1>7 DEF MailInv

(* Nothing is handed over and nothing reported: HandedOver and requests of *)
(* all but one sender stay, and that one did not have a message accepted.  *)
LEMMA NothingAccepted ==
    ASSUME IInv, UNCHANGED <<relayed, sent>>, doubt \subseteq doubt', hasty \subseteq hasty',
           \A x \in Text : told'[x] = "sent" <=> told[x] = "sent",
           \A s \in Sender : HandedOver(s)' => step'[s] = step[s] /\ req'[s] = req[s],
           \A s \in Sender : HandedOver(s) => HandedOver(s)' \/ Entry(s) \in doubt'
    PROVE  MailInv'
<1>1. \A s \in Sender : HandedOver(s)' => HandedOver(s) /\ req'[s] = req[s]
  BY DEF HandedOver
<1>2. \A s \in Handler : step'[s] \in {"recorded", "unlocked"} => Entry(s) \in sent'
  <2>1. SUFFICES ASSUME NEW s \in Handler, step'[s] \in {"recorded", "unlocked"}
                 PROVE  Entry(s) \in sent
    OBVIOUS
  <2>2. s \in Sender /\ HandedOver(s)'
    BY <2>1 DEF HandedOver, Accepted, Sender
  <2>3. step[s] \in {"recorded", "unlocked"}
    BY <2>1, <2>2
  <2> QED
    BY <2>3 DEF IInv, MailInv, Logged
<1> QED
  BY <1>1, <1>2, NothingHandedOver

LEMMA MailStep ==
    ASSUME IInv, TInv', [Next]_vars
    PROVE  MailInv'
<1>0. TInv
  BY DEF IInv
<1>1. ASSUME NEW s \in Sender, NEW x \in Text, NEW ref, Submit(s, x, ref) PROVE MailInv'
  <2>1. /\ ~Busy(s) /\ UNCHANGED <<relayed, sent, doubt>> /\ hasty \subseteq hasty'
        /\ \A t \in Sender : t # s => step'[t] = step[t] /\ req'[t] = req[t]
        /\ step'[s] \in {"free", "resolved"}
        /\ \A y \in Text : told'[y] = "sent" <=> told[y] = "sent"
    BY <1>0, <1>1, TypeOfSubmit
  <2>2. ~HandedOver(s) /\ ~HandedOver(s)'
    BY <2>1 DEF HandedOver, Accepted, Busy
  <2>3. \A t \in Sender : /\ HandedOver(t)' => step'[t] = step[t] /\ req'[t] = req[t]
                          /\ HandedOver(t) => HandedOver(t)'
    BY <2>1, <2>2 DEF HandedOver
  <2> QED
    BY <2>1, <2>3, NothingAccepted
<1>2. ASSUME NEW s \in Sender, GoesOn(s) PROVE MailInv'
  <2>1. /\ UNCHANGED <<told, hasty, doubt>> /\ Busy(s)
        /\ \A t \in Sender : t # s => step'[t] = step[t] /\ req'[t] = req[t]
        /\ ~Seal(s) => req' = req
        /\ ~HandOver(s) => relayed' = relayed
        /\ ~Record(s) => sent' = sent
    BY <1>0, <1>2, TypeOfGoingOn
  <2>0. DOMAIN step = Sender
    BY <1>0 DEF TInv
  <2>2. CASE HandOver(s)
    <3>1. /\ relayed' = Append(relayed, Entry(s)) /\ step[s] = "secured" /\ step'[s] = "accepted"
          /\ req' = req /\ sent' = sent
      BY <2>0, <2>2 DEF HandOver, Goes
    <3>2. ~HandedOver(s) /\ HandedOver(s)' /\ step'[s] \notin {"recorded", "unlocked"}
      BY <3>1 DEF HandedOver, Accepted
    <3> QED
      BY <2>1, <3>1, <3>2, OneHandedOver
  <2>3. CASE Record(s)
    <3>1. /\ step[s] = "quit" /\ step'[s] = "recorded" /\ req' = req /\ relayed' = relayed
          /\ sent' = IF s \in Handler THEN sent \cup {Entry(s)} ELSE sent
      BY <2>0, <2>3 DEF Record, Goes
    <3>2. HandedOver(s) /\ HandedOver(s)'
      BY <3>1 DEF HandedOver, Accepted
    <3>3. \A t \in Sender : HandedOver(t)' <=> HandedOver(t)
      BY <2>1, <3>2 DEF HandedOver
    <3>4. \A t \in Handler : step'[t] \in {"recorded", "unlocked"} => Entry(t) \in sent'
      BY <2>1, <3>1 DEF IInv, MailInv, Logged, Sender
    <3>5. \A m \in sent' : m \in sent \/ \E t \in Sender : HandedOver(t) /\ m = Entry(t)
      BY <3>1, <3>2
    <3>6. sent \subseteq sent'
      BY <3>1
    <3> QED
      BY <2>1, <3>1, <3>3, <3>4, <3>5, <3>6, NothingHandedOver
  <2>4. CASE ~HandOver(s) /\ ~Record(s)
    <3>1. \/ step[s] \in {"resolved", "sealed", "connected"}
             /\ step'[s] \in {"sealed", "connected", "secured"}
          \/ step[s] = "accepted" /\ step'[s] = "quit" /\ req' = req
      BY <2>0, <1>2, <2>4 DEF GoesOn, Seal, Connect, StartTls, Quit, Goes
    <3>2. \A t \in Sender : (HandedOver(t)' <=> HandedOver(t)) /\ (HandedOver(t) => req'[t] = req[t])
      BY <2>1, <3>1 DEF HandedOver, Accepted
    <3>3. \A t \in Handler : step'[t] \in {"recorded", "unlocked"} => Entry(t) \in sent'
      BY <2>1, <2>4, <3>1 DEF IInv, MailInv, Logged, Sender
    <3> QED
      BY <2>1, <2>4, <3>2, <3>3, NothingHandedOver
  <2> QED
    BY <2>2, <2>3, <2>4
<1>3. ASSUME NEW s \in Sender, GivesUp(s) \/ Unlock(s) PROVE MailInv'
  <2>1. /\ UNCHANGED <<told, hasty, sent, req>> /\ Busy(s)
        /\ \A t \in Sender : t # s => step'[t] = step[t]
        /\ step'[s] = IF Unlock(s) THEN "unlocked" ELSE "failed"
    BY <1>0, <1>3, TypeOfLeaving
  <2>2. CASE Unlock(s)
    <3>1. relayed' = relayed /\ doubt' = doubt /\ step[s] = "recorded" /\ step'[s] = "unlocked"
      BY <2>1, <2>2 DEF Unlock
    <3>2. \A t \in Sender : HandedOver(t)' <=> HandedOver(t)
      BY <2>1, <3>1 DEF HandedOver, Accepted
    <3>3. \A t \in Handler : step'[t] \in {"recorded", "unlocked"} => Entry(t) \in sent'
      BY <2>1, <3>1 DEF IInv, MailInv, Logged, Sender
    <3> QED
      BY <2>1, <3>1, <3>2, <3>3, NothingHandedOver
  <2>3. CASE AnswerLost(s)
    <3>1. /\ relayed' = Append(relayed, Entry(s)) /\ doubt' = doubt \cup {Entry(s)}
          /\ step[s] = "secured" /\ step'[s] = "failed"
      BY <2>1, <2>3 DEF AnswerLost, Unlock
    <3>2. ~HandedOver(s) /\ step'[s] \notin {"recorded", "unlocked"} /\ Entry(s) \in doubt'
      BY <3>1 DEF HandedOver, Accepted
    <3> QED
      BY <2>1, <3>1, <3>2, OneHandedOver
  <2>4. CASE RefuseToSendInTheClear(s) \/ Fail(s)
    <3>1. /\ relayed' = relayed /\ doubt \subseteq doubt' /\ step'[s] = "failed"
          /\ HandedOver(s) => Entry(s) \in doubt'
      BY <2>1, <2>4 DEF RefuseToSendInTheClear, Fail, Unanswered, HandedOver, Accepted, Unlock
    <3>2. \A t \in Sender : /\ HandedOver(t)' => step'[t] = step[t] /\ req'[t] = req[t]
                            /\ HandedOver(t) => HandedOver(t)' \/ Entry(t) \in doubt'
      BY <2>1, <3>1 DEF HandedOver, Accepted
    <3> QED
      BY <2>1, <3>1, <3>2, NothingAccepted
  <2> QED
    BY <1>3, <2>2, <2>3, <2>4 DEF GivesUp
<1>4. ASSUME NEW s \in Sender, NEW answer, EndsWith(s, answer) PROVE MailInv'
  <2>1. /\ Busy(s) /\ ~Busy(s)' /\ UNCHANGED <<hasty, relayed, sent>>
        /\ \A t \in Sender : t # s => step'[t] = step[t] /\ req'[t] = req[t]
        /\ \A x \in Text : told[x] = "sent" => told'[x] = "sent"
        /\ \A x \in Text : told'[x] = "sent" /\ told[x] # "sent" =>
             x = req[s].text /\ step[s] = "unlocked"
        /\ answer = "sent" => told'[req[s].text] = "sent"
    BY <1>0, <1>4, TypeOfEnds
  <2>2. doubt \subseteq doubt'
    BY <1>4 DEF EndsWith, Answer, RecordFails, RedirectLost, Unanswered
  <2>3. HandedOver(s) => Entry(s) \in doubt' \/ answer = "sent"
    BY <1>4 DEF EndsWith, Answer, RecordFails, RedirectLost, Unanswered, HandedOver, Accepted
  <2>4. \A t \in Sender : HandedOver(t)' => HandedOver(t) /\ req'[t] = req[t]
    BY <2>1 DEF HandedOver, Accepted, Busy
  <2>5. \A t \in Sender : HandedOver(t) =>
            \/ HandedOver(t)' /\ req'[t] = req[t]
            \/ Entry(t) \in doubt' \/ told'[req[t].text] = "sent"
    BY <2>1, <2>3 DEF HandedOver
  <2>6. \A t \in Handler : step'[t] \in {"recorded", "unlocked"} => Entry(t) \in sent'
    BY <2>1 DEF IInv, MailInv, Logged, Sender, Busy
  <2>7. \A x \in Text : told'[x] = "sent" => \/ told[x] = "sent"
            \/ \E t \in Sender : step[t] = "unlocked" /\ req[t].text = x
    BY <2>1
  <2> QED
    BY <2>1, <2>2, <2>4, <2>5, <2>6, <2>7, NothingHandedOver
<1>5. ASSUME NEW S \in {Handler} \cup {{c} : c \in Cli}, Crash(S) PROVE MailInv'
  <2>1. /\ UNCHANGED <<hasty, relayed, sent>>
        /\ \A s \in Sender : IF s \in S THEN ~Busy(s)'
                             ELSE step'[s] = step[s] /\ req'[s] = req[s]
        /\ \A x \in Text : told'[x] = "sent" <=> told[x] = "sent"
    BY <1>0, <1>5, TypeOfCrash
  <2>2. doubt \subseteq doubt' /\ \A s \in S : HandedOver(s) => Entry(s) \in doubt'
    BY <1>5 DEF Crash, Unanswered, HandedOver
  <2>3. \A t \in Sender : /\ HandedOver(t)' => step'[t] = step[t] /\ req'[t] = req[t]
                          /\ HandedOver(t) => HandedOver(t)' \/ Entry(t) \in doubt'
    BY <2>1, <2>2 DEF HandedOver, Accepted, Busy
  <2> QED
    BY <2>1, <2>2, <2>3, NothingAccepted
<1>6. CASE UNCHANGED vars \/ \E c \in Stranger \ contacts : Learn(c)
  <2>1. UNCHANGED <<step, req, relayed, sent, told, hasty, doubt>>
    BY <1>0, <1>6, TypeOfTheRest
  <2>2. \A t \in Sender : /\ HandedOver(t)' => step'[t] = step[t] /\ req'[t] = req[t]
                          /\ HandedOver(t) => HandedOver(t)'
    BY <2>1 DEF HandedOver
  <2> QED
    BY <2>1, <2>2, NothingAccepted
<1> QED
  BY <1>1, <1>2, <1>3, <1>4, <1>5, <1>6, NextSplits

LEMMA Step == IInv /\ [Next]_vars => IInv'
  BY TypeStep, UserStep, MailStep DEF IInv

(* The sent log holds only what the SMTP server accepted, and what the web *)
(* inbox reports as sent was accepted and is in the log (send_message),    *)
(* for any number of senders, failures and crashes.                        *)
THEOREM SentLogAlwaysTrue == Spec => []SentLogIsTrue
<1>1. IInv => SentLogIsTrue
  BY DEF IInv, MailInv
<1> QED
  BY <1>1, Initially, Step, PTL DEF Spec

(* Whatever fails and in whatever order, a user who waits for the answer   *)
(* to each attempt (server.py:370) sends a text twice only after one that  *)
(* the server had accepted and of which that answer did not come.          *)
THEOREM TwiceAlwaysInDoubt == Spec => []TwiceOnlyInDoubt
<1>1. IInv => TwiceOnlyInDoubt
  BY DEF IInv, MailInv
<1> QED
  BY <1>1, Initially, Step, PTL DEF Spec

-----------------------------------------------------------------------------
(* The order of messages. *)

OldestFirst ==
    \A h \in Handler, i \in DOMAIN relayed :
        Pending(h) /\ relayed[i].by \in Handler => relayed[i].id < req[h].id
OInv ==
    /\ IInv /\ OldestFirst /\ LeavesInOrder
    /\ \A i \in DOMAIN relayed : relayed[i].id <= sealed

LEMMA OrderedAtFirst == Init => OInv
<1> SUFFICES ASSUME Init PROVE OInv
  OBVIOUS
<1>1. IInv
  BY Initially
<1>2. DOMAIN relayed = {}
  BY DEF Init
<1> QED
  BY <1>1, <1>2 DEF OInv, OldestFirst, LeavesInOrder

(* A step that hands nothing over; whoever comes to hold a message sealed  *)
(* it just now.                                                            *)
LEMMA NothingLeaves ==
    ASSUME OInv, IInv', relayed' = relayed, sealed' \in {sealed, sealed + 1},
           \A s \in Sender : Pending(s)' =>
                \/ Pending(s) /\ req'[s].id = req[s].id
                \/ req'[s].id = sealed + 1
    PROVE  OInv'
<1>1. sealed \in Nat
  BY DEF OInv, IInv, TInv
<1>2. \A i \in DOMAIN relayed : relayed[i].id \in Nat /\ relayed[i].id <= sealed
  <2>1. \A i \in DOMAIN relayed : relayed[i] \in Messages
    BY MessagesRelayed DEF OInv, IInv
  <2> QED
    BY <2>1 DEF OInv, Messages
<1>3. OldestFirst'
  <2>1. SUFFICES ASSUME NEW h \in Handler, NEW i \in DOMAIN relayed,
                        Pending(h)', relayed[i].by \in Handler
                 PROVE  relayed[i].id < req'[h].id
    BY DEF OldestFirst
  <2>2. h \in Sender
    BY DEF Sender
  <2>3. CASE req'[h].id = sealed + 1
    BY <1>1, <1>2, <2>3
  <2>4. CASE Pending(h) /\ req'[h].id = req[h].id
    BY <2>1, <2>4 DEF OInv, OldestFirst
  <2> QED
    BY <2>1, <2>2, <2>3, <2>4
<1>4. LeavesInOrder'
  BY DEF OInv, LeavesInOrder
<1>5. \A i \in DOMAIN relayed' : relayed'[i].id <= sealed'
  BY <1>1, <1>2
<1> QED
  BY <1>3, <1>4, <1>5 DEF OInv

(* A message leaves: by a handler, it is the only one to hold one.         *)
LEMMA OneLeaves ==
    ASSUME OInv, IInv', NEW s \in Sender, Pending(s), ~Pending(s)',
           relayed' = Append(relayed, Entry(s)), sealed' = sealed, req' = req,
           \A t \in Sender \ {s} : step'[t] = step[t]
    PROVE  OInv'
<1>n. PICK n \in Nat : n = Len(relayed)
  <2>1. relayed \in Seq(Messages)
    BY DEF OInv, IInv, TInv
  <2> QED
    BY <2>1
<1>1. Busy(s)
  BY DEF Busy, Pending
<1>2. Entry(s) \in Messages /\ Entry(s).id = req[s].id /\ Entry(s).by = s
      /\ req[s].id \in Nat /\ req[s].id <= sealed /\ sealed \in Nat
  BY <1>1 DEF Entry, Messages, OInv, IInv, TInv, RequestOK, Requests
<1>3. /\ DOMAIN relayed = 1..n /\ DOMAIN relayed' = 1..(n + 1) /\ relayed'[n + 1] = Entry(s)
      /\ \A i \in 1..n : relayed'[i] = relayed[i] /\ relayed[i] \in Messages
  <2>1. relayed \in Seq(Messages)
    BY DEF OInv, IInv, TInv
  <2> QED
    BY <1>n, <1>2, <2>1
<1>4. \A i \in DOMAIN relayed' : relayed'[i].id <= sealed'
  BY <1>n, <1>2, <1>3 DEF OInv
<1>5. ASSUME s \in Handler, NEW h \in Handler, Pending(h)' PROVE FALSE
  <2>1. h # s /\ Pending(h)
    BY <1>5 DEF Pending, Sender
  <2>2. lock = s /\ lock = h
    BY <1>5, <2>1 DEF OInv, IInv, TInv, TypeOK, Pending
  <2> QED
    BY <2>1, <2>2
<1>6. OldestFirst'
  <2>1. SUFFICES ASSUME NEW h \in Handler, NEW i \in 1..(n + 1),
                        Pending(h)', relayed'[i].by \in Handler
                 PROVE  relayed'[i].id < req'[h].id
    BY <1>3 DEF OldestFirst
  <2>2. Pending(h)
    BY <2>1 DEF Sender, Pending
  <2>3. i \in 1..n
    <3>1. CASE i = n + 1
      BY <1>2, <1>3, <1>5, <2>1, <3>1
    <3> QED
      BY <1>n, <3>1
  <2> QED
    BY <1>3, <2>1, <2>2, <2>3 DEF OInv, OldestFirst
<1>7. LeavesInOrder'
  <2>1. SUFFICES ASSUME NEW i \in 1..(n + 1), NEW j \in 1..(n + 1), i < j,
                        relayed'[i].by \in Handler, relayed'[j].by \in Handler
                 PROVE  relayed'[i].id < relayed'[j].id
    BY <1>3 DEF LeavesInOrder
  <2>2. i \in 1..n
    BY <1>n, <2>1
  <2>3. CASE j \in 1..n
    BY <1>3, <2>1, <2>2, <2>3 DEF OInv, LeavesInOrder
  <2>4. CASE j = n + 1
    BY <1>2, <1>3, <2>1, <2>2, <2>4 DEF OInv, OldestFirst
  <2> QED
    BY <1>n, <2>3, <2>4
<1> QED
  BY <1>4, <1>6, <1>7 DEF OInv

LEMMA OrderedStep == OInv /\ [Next]_vars => OInv'
<1> SUFFICES ASSUME OInv, [Next]_vars PROVE OInv'
  OBVIOUS
<1>0. IInv /\ IInv' /\ TInv /\ DOMAIN step = Sender
  BY Step DEF OInv, IInv, TInv
<1>1. ASSUME NEW s \in Sender, NEW x \in Text, NEW ref, Submit(s, x, ref) PROVE OInv'
  <2>1. /\ UNCHANGED <<relayed, sealed>> /\ step'[s] \in {"free", "resolved"}
        /\ \A t \in Sender : t # s => step'[t] = step[t] /\ req'[t] = req[t]
    BY <1>0, <1>1, TypeOfSubmit
  <2>2. \A t \in Sender : Pending(t)' => Pending(t) /\ req'[t].id = req[t].id
    BY <2>1 DEF Pending
  <2> QED
    BY <1>0, <2>1, <2>2, NothingLeaves
<1>2. ASSUME NEW s \in Sender, GoesOn(s) PROVE OInv'
  <2>1. /\ \A t \in Sender : t # s => step'[t] = step[t] /\ req'[t] = req[t]
        /\ Seal(s) => req'[s].id = sealed + 1 /\ sealed' = sealed + 1
        /\ ~Seal(s) => req' = req /\ sealed' = sealed
        /\ ~HandOver(s) => relayed' = relayed
    BY <1>0, <1>2, TypeOfGoingOn
  <2>2. CASE HandOver(s)
    <3>1. /\ relayed' = Append(relayed, Entry(s)) /\ step[s] = "secured" /\ step'[s] = "accepted"
          /\ req' = req /\ sealed' = sealed
      BY <1>0, <2>2 DEF HandOver, Goes
    <3>2. Pending(s) /\ ~Pending(s)'
      BY <3>1 DEF Pending
    <3> QED
      BY <1>0, <2>1, <3>1, <3>2, OneLeaves
  <2>3. CASE ~HandOver(s)
    <3>1. Pending(s)' => \/ req'[s].id = sealed + 1
                         \/ Pending(s) /\ req'[s].id = req[s].id
      <4>1. CASE Seal(s)
        BY <2>1, <4>1
      <4>2. CASE ~Seal(s)
        <5>1. \/ step[s] \in {"sealed", "connected"}
              \/ step'[s] \in {"quit", "recorded"}
          BY <1>0, <1>2, <2>3, <4>2 DEF GoesOn, Connect, StartTls, Quit, Record, Goes
        <5> QED
          BY <2>1, <4>2, <5>1 DEF Pending
      <4> QED
        BY <4>1, <4>2
    <3>2. \A t \in Sender : Pending(t)' =>
            \/ Pending(t) /\ req'[t].id = req[t].id
            \/ req'[t].id = sealed + 1
      BY <2>1, <3>1 DEF Pending
    <3>3. sealed' \in {sealed, sealed + 1}
      BY <2>1
    <3> QED
      BY <1>0, <2>1, <2>3, <3>2, <3>3, NothingLeaves
  <2> QED
    BY <2>2, <2>3
<1>3. ASSUME NEW s \in Sender, GivesUp(s) \/ Unlock(s) PROVE OInv'
  <2>1. /\ UNCHANGED <<req, sealed>> /\ step'[s] \in {"unlocked", "failed"}
        /\ \A t \in Sender : t # s => step'[t] = step[t]
    BY <1>0, <1>3, TypeOfLeaving
  <2>2. CASE AnswerLost(s)
    <3>1. relayed' = Append(relayed, Entry(s)) /\ Pending(s) /\ ~Pending(s)'
      BY <2>1, <2>2 DEF AnswerLost, Pending
    <3> QED
      BY <1>0, <2>1, <3>1, OneLeaves
  <2>3. CASE ~AnswerLost(s)
    <3>1. relayed' = relayed
      BY <1>3, <2>3 DEF GivesUp, RefuseToSendInTheClear, Fail, Unlock
    <3>2. \A t \in Sender : Pending(t)' => Pending(t) /\ req'[t].id = req[t].id
      BY <2>1 DEF Pending
    <3> QED
      BY <1>0, <2>1, <3>1, <3>2, NothingLeaves
  <2> QED
    BY <2>2, <2>3
<1>4. ASSUME NEW s \in Sender, NEW answer, EndsWith(s, answer) PROVE OInv'
  <2>1. /\ ~Busy(s)' /\ UNCHANGED <<sealed, relayed>>
        /\ \A t \in Sender : t # s => step'[t] = step[t] /\ req'[t] = req[t]
    BY <1>0, <1>4, TypeOfEnds
  <2>2. \A t \in Sender : Pending(t)' => Pending(t) /\ req'[t].id = req[t].id
    BY <2>1 DEF Pending, Busy
  <2> QED
    BY <1>0, <2>1, <2>2, NothingLeaves
<1>5. ASSUME NEW S \in {Handler} \cup {{c} : c \in Cli}, Crash(S) PROVE OInv'
  <2>1. /\ UNCHANGED <<sealed, relayed>>
        /\ \A s \in Sender : ~Busy(s)' \/ (step'[s] = step[s] /\ req'[s] = req[s])
    BY <1>0, <1>5, TypeOfCrash
  <2>2. \A t \in Sender : Pending(t)' => Pending(t) /\ req'[t].id = req[t].id
    BY <2>1 DEF Pending, Busy
  <2> QED
    BY <1>0, <2>1, <2>2, NothingLeaves
<1>6. CASE UNCHANGED vars \/ \E c \in Stranger \ contacts : Learn(c)
  <2>1. UNCHANGED <<step, req, sealed, relayed>>
    BY <1>0, <1>6, TypeOfTheRest
  <2>2. \A t \in Sender : Pending(t)' => Pending(t) /\ req'[t].id = req[t].id
    BY <2>1 DEF Pending
  <2> QED
    BY <1>0, <2>1, <2>2, NothingLeaves
<1> QED
  BY <1>1, <1>2, <1>3, <1>4, <1>5, <1>6, NextSplits

(* Whatever fails, and wherever the clock is set, the messages of the web  *)
(* inbox leave in the order in which they were sealed ("One send at a      *)
(* time", server.py:125), for any number of handlers.                      *)
THEOREM OrderAlwaysKept == Spec => []LeavesInOrder
<1>1. OInv => LeavesInOrder
  BY DEF OInv
<1> QED
  BY <1>1, OrderedAtFirst, OrderedStep, PTL DEF Spec
=============================================================================
