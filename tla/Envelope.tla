------------------------------ MODULE Envelope ------------------------------
(***************************************************************************)
(* A message from seal to open_envelope, and an invitation from            *)
(* build_invitation_body to parse_invitation, over a mail path that may    *)
(* change one field for another, quote an older block, cut one off, or     *)
(* make up an identity and everything that names it.                       *)
(*                                                                         *)
(* Cryptography is symbolic: keys, signatures and ciphertexts are terms    *)
(* that match when they are built from the same parts.  What a message is  *)
(* bound to is therefore exactly what Canonical, Transcript and            *)
(* SignedBytes put into those terms.                                       *)
(***************************************************************************)
EXTENDS Integers, Sequences, FiniteSets

CONSTANTS
    Person,      \* each with an identity of their own
    Reader,      \* the one whose mail is read
    Address(_),  \* the address in the identity of a person
    Spelled(_),  \* the spellings under which others may know it
    Lower(_),    \* strip().lower()
    Subject,     \* subjects; "too long" is over MAX_SUBJECT_LENGTH
    Strangers,   \* made-up identities that earlier mail may have brought
    (* Bounds for the model checker. *)
    MaxSealed,   \* messages sealed
    MaxDamage    \* changes on the way

(* Addresses are validated, so none is empty; a person is known under      *)
(* spellings of their own address; "garbled" is nobody's key.              *)
ASSUME PersonAssumption ==
    /\ Reader \in Person /\ "garbled" \notin Person
    /\ \A p \in Person : Address(p) # "" /\ \A a \in Spelled(p) : Lower(a) = Lower(Address(p))

VARIABLES
    ledger,  \* history: what was sealed, by whom and for whom
    mail,    \* the armoured blocks of the mail on its way
    damage,  \* how often it was changed on the way
    forged,  \* history: an identity was made up, in this mail or an earlier
    known,   \* the identities in the reader's contact store
    stage,   \* how far reading has come
    sender,  \* the identity that the envelope is checked against
    text     \* the plaintext, once opened

vars == <<ledger, mail, damage, forged, known, stage, sender, text>>

Garbled == [garbled |-> TRUE]   \* not base64, or of the wrong length
Nothing == [absent |-> TRUE]

-----------------------------------------------------------------------------
(* keys.py.  A key is named by its owner. *)
FingerprintAsSpelled(b) == <<b.address, b.sig, b.x25519, b.mlkem>>
Fingerprint(b) == <<Lower(b.address), b.sig, b.x25519, b.mlkem>>

Claiming(b) == [b EXCEPT !.fingerprint = Fingerprint(b)]
Identity(p, address) ==
    Claiming([v |-> 1, address |-> address, sig |-> p, x25519 |-> p, mlkem |-> p,
              fingerprint |-> <<>>])
Own(p) == Identity(p, Address(p))
Whole(b) == \E p \in Person : Fingerprint(b) = Fingerprint(Own(p))

(* PublicIdentity.from_dict: a fingerprint need not be claimed, but a      *)
(* claim must be true.                                                     *)
ReadsBackUnchecked(b) == b.v = 1 /\ b.address # "" /\ "garbled" \notin {b.sig, b.x25519, b.mlkem}
ReadsBack(b) ==
    /\ b.v = 1 /\ b.address # "" /\ "garbled" \notin {b.sig, b.x25519, b.mlkem}
    /\ b.fingerprint \in {<<>>, Fingerprint(b)}

-----------------------------------------------------------------------------
(* envelope.py, kem.py, aead.py. *)
HeaderFields == {"v", "id", "ts", "from_fp", "to_fp", "subject"}
Header(e) == [f \in HeaderFields |-> e[f]]
CanonicalBarSubject(h) == [f \in HeaderFields \ {"subject"} |-> h[f]]
Canonical(h) == h

KemContextOfPurpose(h) == [v |-> 1]
KemContext(h) == Canonical(h)

Transcript(public, kem, context) ==
    [ephemeral |-> kem.x25519, static |-> public.x25519,
     ct |-> kem.mlkem, ek |-> public.mlkem, context |-> context]
DeriveKey(classical, pq, transcript) ==
    [classical |-> classical, pq |-> pq, transcript |-> transcript]

(* The ephemeral key and the post-quantum secret are fresh: they are named *)
(* by the message.                                                         *)
Exchange(ephemeral, static) == [ephemeral |-> ephemeral, static |-> static]
Encapsulate(public, id, context) ==
    LET kem == [x25519 |-> [ephemeral |-> id], mlkem |-> [under |-> public.mlkem, secret |-> id]]
    IN  [kem |-> kem,
         key |-> DeriveKey(Exchange(kem.x25519, public.x25519), kem.mlkem,
                           Transcript(public, kem, context))]
(* Implicit rejection: a ciphertext for another key yields some secret. *)
Decaps(p, ct) == IF ct.under = p THEN ct ELSE [rejected |-> <<p, ct>>]
Decapsulate(p, kem, context) ==
    DeriveKey(Exchange(kem.x25519, p), Decaps(p, kem.mlkem), Transcript(Own(p), kem, context))

SignedBytes(h, kem, nonce, ct) == <<Canonical(h), kem.x25519, kem.mlkem, nonce, ct>>

Seal(id, from, to, subject, attach) ==
    LET h == [v |-> 1, id |-> id, ts |-> id, from_fp |-> Fingerprint(Own(from)),
              to_fp |-> Fingerprint(to), subject |-> subject]
        agreed == Encapsulate(to, id, KemContext(h))
        ct == [key |-> agreed.key, nonce |-> [n |-> id], ad |-> Canonical(h), text |-> id]
    IN  [v |-> 1, id |-> id, ts |-> id, from_fp |-> h.from_fp, to_fp |-> h.to_fp,
         subject |-> subject, x25519 |-> agreed.kem.x25519, mlkem |-> agreed.kem.mlkem,
         nonce |-> [n |-> id], ct |-> ct,
         sig |-> [by |-> from, over |-> SignedBytes(h, agreed.kem, [n |-> id], ct)],
         sender_id |-> IF attach THEN Own(from) ELSE Nothing]

Kem(e) == [x25519 |-> e.x25519, mlkem |-> e.mlkem]
Signs(b, e) ==
    /\ e.sig.by = b.sig
    /\ e.sig.over = SignedBytes(Header(e), Kem(e), e.nonce, e.ct)
KeyOf(p, e) == Decapsulate(p, Kem(e), KemContext(Header(e)))
Decrypts(p, e) ==
    e.ct.key = KeyOf(p, e) /\ e.ct.nonce = e.nonce /\ e.ct.ad = Canonical(Header(e))

(* Envelope.from_json: ids are from 1, a timestamp of 0 is out of range,   *)
(* and an attached identity is the one that the header names.              *)
AttachedAsNamed(e) ==
    \/ e.sender_id = Nothing
    \/ ReadsBack(e.sender_id) /\ Fingerprint(e.sender_id) = e.from_fp
Parses(e) ==
    /\ e.v = 1 /\ e.id > 0 /\ e.ts > 0 /\ e.subject # "too long"
    /\ <<>> \notin {e.from_fp, e.to_fp}
    /\ Garbled \notin {e.x25519, e.mlkem, e.nonce, e.ct, e.sig}
    /\ AttachedAsNamed(e)

-----------------------------------------------------------------------------
(* armor.py: exactly one block of the kind, and no BEGIN before it that    *)
(* lost its END and so runs into it.                                       *)
Armor(kind, payload) == [kind |-> kind, payload |-> payload, whole |-> TRUE]
BlocksOf(kind) == {i \in DOMAIN mail : mail[i].kind = kind /\ mail[i].whole}
Contains(kind) == BlocksOf(kind) # {}
Dearmors(kind) ==
    /\ Cardinality(BlocksOf(kind)) = 1
    /\ \A i \in DOMAIN mail : mail[i].kind = kind => \A j \in BlocksOf(kind) : i >= j
Payload(kind) == mail[CHOOSE i \in BlocksOf(kind) : TRUE].payload
TheEnvelope == Payload("MESSAGE")

-----------------------------------------------------------------------------
Init ==
    /\ ledger = {} /\ mail = <<>> /\ damage = 0
    /\ known \in SUBSET (Strangers \cup
            UNION {{Identity(p, a) : a \in Spelled(p)} : p \in Person \ {Reader}})
    /\ \A b, c \in known : Fingerprint(b) = Fingerprint(c) => b = c
    /\ forged = (known \cap Strangers # {})
    /\ stage = "writing" /\ sender = Nothing /\ text = 0

Next_id == 1 + Cardinality(ledger)
Write(from, to, spelling, subject, attach) ==
    /\ stage = "writing" /\ Next_id <= MaxSealed /\ subject # "too long"
    /\ ledger' = ledger \cup
        {[from |-> from, to |-> to,
          envelope |-> Seal(Next_id, from, Identity(to, spelling), subject, attach)]}
    /\ UNCHANGED <<mail, damage, forged, known, stage, sender, text>>

Sends(block) ==
    /\ stage = "writing" /\ stage' = "sent"
    /\ mail' = <<block>>
    /\ UNCHANGED <<ledger, damage, forged, known, sender, text>>
Post(l) == Sends(Armor("MESSAGE", l.envelope))
Invite(p) == Sends(Armor("IDENTITY", Own(p)))

-----------------------------------------------------------------------------
(* The mail path. *)
Changes(payload) ==
    /\ stage = "sent" /\ damage < MaxDamage /\ damage' = damage + 1
    /\ mail' = [mail EXCEPT ![1].payload = payload]
    /\ UNCHANGED <<ledger, known, stage, sender, text>>
Damages(payload) == Changes(payload) /\ UNCHANGED forged
Forges(payload) == Changes(payload) /\ forged' = TRUE

OddBundles(p) ==
    LET b == Own(p) IN
    {[b EXCEPT !.v = 2], [b EXCEPT !.address = ""], [b EXCEPT !.mlkem = "garbled"],
     [b EXCEPT !.fingerprint = <<>>]}
    \cup {[b EXCEPT ![f] = q] : f \in {"sig", "x25519", "mlkem"}, q \in Person}
    \cup {[b EXCEPT !.address = a] : a \in UNION {Spelled(q) : q \in Person}}

(* The same, with no fingerprint claimed or with that of what it now is.   *)
MadeUp ==
    LET Relabelled(b) == {Claiming(b), [b EXCEPT !.fingerprint = <<>>]}
    IN  {b \in UNION {UNION {Relabelled(c) : c \in OddBundles(p)} : p \in Person} : ~Whole(b)}

Odd(f) ==
    CASE f = "v" -> {2} [] f \in {"id", "ts"} -> {0, 9} [] f = "subject" -> Subject \cup {""}
      [] f \in {"from_fp", "to_fp"} -> {<<>>} \cup {Fingerprint(Own(p)) : p \in Person}
      [] f = "sender_id" -> {Nothing} \cup UNION {OddBundles(p) : p \in Person}
      [] OTHER -> {Garbled}
FieldNames == HeaderFields \cup {"x25519", "mlkem", "nonce", "ct", "sig", "sender_id"}

DamageMessage(f) ==
    /\ mail # <<>> /\ mail[1].kind = "MESSAGE"
    /\ \E x \in Odd(f) \cup {l.envelope[f] : l \in ledger} :
        x # mail[1].payload[f] /\ Damages([mail[1].payload EXCEPT ![f] = x])
DamageInvitation ==
    /\ mail # <<>> /\ mail[1].kind = "IDENTITY"
    /\ \E b \in OddBundles(mail[1].payload.sig) : Damages(b)
ForgeInvitation(b) ==
    /\ mail # <<>> /\ mail[1].kind = "IDENTITY"
    /\ Forges(b)
ForgeSender(b) ==
    /\ mail # <<>> /\ mail[1].kind = "MESSAGE"
    /\ Forges([mail[1].payload EXCEPT !.sender_id = b, !.from_fp = Fingerprint(b)])
Quote(block) ==
    /\ stage = "sent" /\ damage < MaxDamage /\ damage' = damage + 1
    /\ mail' = Append(mail, block)
    /\ UNCHANGED <<ledger, forged, known, stage, sender, text>>
CutOff(i) ==
    /\ stage = "sent" /\ damage < MaxDamage /\ damage' = damage + 1
    /\ mail' = [mail EXCEPT ![i].whole = FALSE]
    /\ UNCHANGED <<ledger, forged, known, stage, sender, text>>

-----------------------------------------------------------------------------
(* _process_fetched and process_body, in their order; replay is another    *)
(* module's matter.  A mail with an IDENTITY block is an invitation,       *)
(* whatever else is in it.                                                 *)
Becomes(s) ==
    stage' = s /\ UNCHANGED <<ledger, mail, damage, forged, known, sender, text>>

Examine ==
    /\ stage = "sent" /\ ~Contains("IDENTITY") /\ Contains("MESSAGE")
    /\ Becomes(IF /\ Dearmors("MESSAGE") /\ Parses(TheEnvelope)
                  /\ TheEnvelope.to_fp = Fingerprint(Own(Reader))
               THEN "parsed" ELSE "refused")

StoredAs(fp) == {b \in known : Fingerprint(b) = fp}
Resolve ==
    /\ stage = "parsed"
    /\ LET stored == StoredAs(TheEnvelope.from_fp)
           candidates == IF stored # {} THEN stored ELSE {TheEnvelope.sender_id} \ {Nothing}
       IN  IF candidates = {} THEN Becomes("refused")
           ELSE /\ sender' \in candidates /\ known' = known \cup {sender'}
                /\ stage' = "resolved"
                /\ UNCHANGED <<ledger, mail, damage, forged, text>>
(* open_envelope: the signature before any key. *)
Verify ==
    /\ stage = "resolved"
    /\ Becomes(IF Fingerprint(sender) = TheEnvelope.from_fp /\ Signs(sender, TheEnvelope)
               THEN "verified" ELSE "refused")
Open ==
    /\ stage = "verified"
    /\ stage' = IF Decrypts(Reader, TheEnvelope) THEN "opened" ELSE "refused"
    /\ text' = IF Decrypts(Reader, TheEnvelope) THEN TheEnvelope.ct.text ELSE 0
    /\ UNCHANGED <<ledger, mail, damage, forged, known, sender>>

(* What an invitation offers waits for a decision, under its fingerprint. *)
ReadInvitation ==
    /\ stage = "sent" /\ Contains("IDENTITY")
    /\ IF Dearmors("IDENTITY") /\ ReadsBack(Payload("IDENTITY"))
       THEN stage' = "offered" /\ sender' = Payload("IDENTITY")
       ELSE stage' = "refused" /\ sender' = Nothing
    /\ UNCHANGED <<ledger, mail, damage, forged, known, text>>

Next ==
    \/ \E from, to \in Person, subject \in Subject, attach \in BOOLEAN :
        \E spelling \in Spelled(to) : from # to /\ Write(from, to, spelling, subject, attach)
    \/ \E l \in ledger : Post(l) \/ Quote(Armor("MESSAGE", l.envelope))
    \/ \E p \in Person : Invite(p) \/ Quote(Armor("IDENTITY", Own(p)))
    \/ \E f \in FieldNames : DamageMessage(f)
    \/ DamageInvitation
    \/ \E b \in MadeUp : ForgeInvitation(b) \/ ForgeSender(b)
    \/ \E i \in DOMAIN mail : CutOff(i)
    \/ Examine \/ Resolve \/ Verify \/ Open \/ ReadInvitation

Spec == Init /\ [][Next]_vars

-----------------------------------------------------------------------------
(* A message opens only as it was sealed: for this reader, by the person   *)
(* it is attributed to, with that subject, id and date ("Authorship is     *)
(* cryptographically bound", envelope.py:17).                              *)
OpensOnlyAsSealed ==
    stage = "opened" => \E l \in ledger :
        /\ l.to = Reader /\ Fingerprint(sender) = Fingerprint(Own(l.from))
        /\ Header(TheEnvelope) = Header(l.envelope) /\ text = l.envelope.ct.text

(* Nothing is decapsulated but what the sender signed, every part of it    *)
(* ("an unauthenticated sender cannot make us perform decapsulation work", *)
(* envelope.py:287); and the key alone, were there no signature, is        *)
(* derived from no envelope with another header or recipient.              *)
EachLayerBinds ==
    /\ stage \in {"verified", "opened"} => \E l \in ledger :
        /\ l.from = sender.sig
        /\ \A f \in FieldNames \ {"sender_id"} : TheEnvelope[f] = l.envelope[f]
    /\ stage \in {"parsed", "resolved"} => \A l \in ledger :
        KeyOf(Reader, TheEnvelope) = l.envelope.ct.key =>
            l.to = Reader /\ Header(TheEnvelope) = Header(l.envelope)

(* A mail that arrives as it was sent is read: a message by whoever it was *)
(* sealed for, if the sender is known or attached an identity, and an      *)
(* invitation by anyone, however the addresses are spelled on either side. *)
UndamagedIsRead ==
    stage = "refused" /\ damage = 0 =>
        /\ mail[1].kind = "MESSAGE"
        /\ \A l \in ledger : l.envelope = mail[1].payload =>
            \/ l.to # Reader
            \/ l.envelope.sender_id = Nothing /\ StoredAs(l.envelope.from_fp) = {}

(* An identity that is nobody's whole one is in the contact store or among *)
(* the offers only where the mail path made up all that names it, the      *)
(* claimed fingerprint (keys.py:130) and the one in the header             *)
(* (receiver.py:98) included; no message verifies under such an identity,  *)
(* and no identity that comes in displaces one that was stored.            *)
WholeUnlessForged ==
    /\ forged \/ \A b \in known \cup (IF stage = "offered" THEN {sender} ELSE {}) : Whole(b)
    /\ stage \in {"verified", "opened"} => Whole(sender)
    /\ \A b, c \in known : Fingerprint(b) = Fingerprint(c) => b = c
=============================================================================
