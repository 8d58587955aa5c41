--------------------------- MODULE EnvelopeProofs ---------------------------
(***************************************************************************)
(* Proofs about Envelope for any people, spellings and subjects, any       *)
(* number of messages, and any number of changes on the way.               *)
(*                                                                         *)
(* Damage may put any field of any sealed message, and odd values besides, *)
(* into any field, but a signature in the mail is one that somebody made   *)
(* for a sealed message, or garbled (FieldsOK).  The signature covers every*)
(* other field but the attached identity, so a message that verifies is    *)
(* one of the ledger.                                                      *)
(***************************************************************************)
EXTENDS Envelope, FiniteSetTheorems, TLAPS

(* Any identity that a block may hold, as long as none was forged. *)
Bundles == UNION {OddBundles(p) \cup {Own(p)} : p \in Person}

(* What holds of every sealed message. *)
Authentic(l) ==
    LET e == l.envelope IN
    /\ l.from \in Person /\ l.to \in Person
    /\ DOMAIN e = FieldNames
    /\ e.v = 1 /\ e.id \in Nat \ {0} /\ e.ts \in Nat \ {0} /\ e.subject # "too long"
    /\ e.from_fp = Fingerprint(Own(l.from)) /\ e.to_fp = Fingerprint(Own(l.to))
    /\ Garbled \notin {e.x25519, e.mlkem, e.nonce, e.ct, e.sig}
    /\ e.sig.by = l.from /\ e.sig.over = SignedBytes(Header(e), Kem(e), e.nonce, e.ct)
    /\ e.ct.key = KeyOf(l.to, e) /\ e.ct.nonce = e.nonce /\ e.ct.ad = Header(e)
    /\ e.sender_id \in {Nothing, Own(l.from)}

(* What holds of every block of the mail on its way; the identities in it  *)
(* may be any once one was forged. *)
FieldsOK(e, any) ==
    /\ DOMAIN e = FieldNames
    /\ e.sig \in {Garbled} \cup {l.envelope.sig : l \in ledger}
    /\ any \/ e.sender_id \in {Nothing} \cup Bundles
BlockOK(b, any) ==
    /\ DOMAIN b = {"kind", "payload", "whole"} /\ b.kind \in {"MESSAGE", "IDENTITY"}
    /\ b.kind = "MESSAGE" => FieldsOK(b.payload, any)
    /\ b.kind = "IDENTITY" => any \/ b.payload \in Bundles
AsSent ==
    /\ Len(mail) = 1 /\ mail[1].whole
    /\ mail[1].kind = "MESSAGE" => \E l \in ledger : mail[1].payload = l.envelope
    /\ mail[1].kind = "IDENTITY" => \E p \in Person : mail[1].payload = Own(p)

Identities ==
    /\ forged \/ \A b \in known \cup (IF stage = "offered" THEN {sender} ELSE {}) : Whole(b)
    /\ \A b, c \in known : Fingerprint(b) = Fingerprint(c) => b = c

Past(stages) == stage \in stages
Inv ==
    /\ IsFiniteSet(ledger) /\ damage \in Nat
    /\ \A l \in ledger : Authentic(l)
    /\ \E S : mail \in Seq(S)
    /\ \A i \in DOMAIN mail : BlockOK(mail[i], forged)
    /\ stage = "writing" => mail = <<>>
    /\ stage # "writing" => Len(mail) > 0 /\ (damage = 0 => AsSent)
    /\ Past({"parsed", "resolved", "verified", "opened"}) =>
        /\ FieldsOK(TheEnvelope, forged) /\ Parses(TheEnvelope)
        /\ TheEnvelope.to_fp = Fingerprint(Own(Reader))
        /\ damage = 0 => TheEnvelope = mail[1].payload /\ mail[1].kind = "MESSAGE"
    /\ Past({"resolved", "verified", "opened"}) => Fingerprint(sender) = TheEnvelope.from_fp
    /\ Past({"verified", "opened"}) => Signs(sender, TheEnvelope)
    /\ Past({"opened"}) => text = TheEnvelope.ct.text
    /\ forged \in BOOLEAN /\ Identities /\ UndamagedIsRead

-----------------------------------------------------------------------------
(* Identities and fingerprints. *)

(* A fingerprint names its owner, and does not depend on the spelling.     *)
LEMMA FingerprintNames ==
    ASSUME NEW p, NEW a
    PROVE  /\ Identity(p, a).sig = p /\ Identity(p, a).x25519 = p /\ Identity(p, a).mlkem = p
           /\ Identity(p, a).v = 1 /\ Identity(p, a).address = a
           /\ Identity(p, a).fingerprint = Fingerprint(Identity(p, a))
           /\ Fingerprint(Identity(p, a)) = <<Lower(a), p, p, p>>
<1> DEFINE b == [v |-> 1, address |-> a, sig |-> p, x25519 |-> p, mlkem |-> p,
                 fingerprint |-> <<>>]
<1>1. Fingerprint(b) = <<Lower(a), p, p, p>>
  BY DEF Fingerprint
<1>2. Identity(p, a) = [v |-> 1, address |-> a, sig |-> p, x25519 |-> p, mlkem |-> p,
                        fingerprint |-> <<Lower(a), p, p, p>>]
  BY <1>1 DEF Identity, Claiming
<1> QED
  BY <1>2 DEF Fingerprint

LEMMA FingerprintIgnoresSpelling ==
    ASSUME NEW p \in Person, NEW a \in Spelled(p)
    PROVE  Fingerprint(Identity(p, a)) = Fingerprint(Own(p))
<1>1. Fingerprint(Identity(p, a)) = <<Lower(a), p, p, p>>
  BY FingerprintNames
<1>2. Fingerprint(Own(p)) = <<Lower(Address(p)), p, p, p>>
  BY FingerprintNames DEF Own
<1>3. Lower(a) = Lower(Address(p))
  BY PersonAssumption
<1> QED
  BY <1>1, <1>2, <1>3

LEMMA OwnReadsBack ==
    ASSUME NEW p \in Person
    PROVE  /\ ReadsBack(Own(p)) /\ Own(p) # Nothing /\ Own(p).sig = p
           /\ Fingerprint(Own(p)) = <<Lower(Address(p)), p, p, p>>
<1>1. Own(p).sig = p /\ Fingerprint(Own(p)) = <<Lower(Address(p)), p, p, p>>
  BY FingerprintNames DEF Own
<1>2. Own(p) # Nothing
  <2>1. "sig" \in DOMAIN Own(p)
    BY DEF Own, Identity, Claiming
  <2>2. "sig" \notin DOMAIN Nothing
    BY DEF Nothing
  <2> QED
    BY <2>1, <2>2
<1>3. ReadsBack(Own(p))
  <2>1. /\ Own(p).v = 1 /\ Own(p).address = Address(p) /\ Own(p).x25519 = p
        /\ Own(p).mlkem = p /\ Own(p).fingerprint = Fingerprint(Own(p))
    BY FingerprintNames DEF Own
  <2>2. p # "garbled" /\ Address(p) # ""
    BY PersonAssumption
  <2> QED
    BY <1>1, <2>1, <2>2 DEF ReadsBack
<1> QED
  BY <1>1, <1>2, <1>3

(* from_dict reads back nothing but somebody's identity as they made it,   *)
(* whichever field of it was changed.                                      *)
LEMMA BundlesAreWhole ==
    ASSUME NEW c \in Bundles
    PROVE  /\ c.sig \in Person
           /\ ReadsBack(c) => \E p \in Person : Fingerprint(c) = Fingerprint(Own(p))
<1>1. PICK p \in Person : c \in OddBundles(p) \/ c = Own(p)
  BY DEF Bundles
<1> DEFINE own == Own(p)
<1>2. own = [v |-> 1, address |-> Address(p), sig |-> p, x25519 |-> p, mlkem |-> p,
             fingerprint |-> <<Lower(Address(p)), p, p, p>>]
  BY DEF Own, Identity, Claiming, Fingerprint
<1> HIDE DEF own
<1>3. CASE c = own
  BY <1>2, <1>3 DEF own
<1>4. CASE c = [own EXCEPT !.v = 2] \/ c = [own EXCEPT !.address = ""]
           \/ c = [own EXCEPT !.mlkem = "garbled"]
  <2>1. c.sig = p
    BY <1>2, <1>4
  <2>2. CASE c = [own EXCEPT !.v = 2]
    <3>1. c.v = 2
      BY <1>2, <2>2
    <3> QED
      BY <2>1, <3>1 DEF ReadsBack
  <2>3. CASE c = [own EXCEPT !.address = ""]
    <3>1. c.address = ""
      BY <1>2, <2>3
    <3> QED
      BY <2>1, <3>1 DEF ReadsBack
  <2>4. CASE c = [own EXCEPT !.mlkem = "garbled"]
    <3>1. c.mlkem = "garbled"
      BY <1>2, <2>4
    <3> QED
      BY <2>1, <3>1 DEF ReadsBack
  <2> QED
    BY <1>4, <2>2, <2>3, <2>4
<1>5. CASE c = [own EXCEPT !.fingerprint = <<>>]
  <2>1. Fingerprint(c) = Fingerprint(own)
    BY <1>2, <1>5 DEF Fingerprint
  <2> QED
    BY <1>2, <1>5, <2>1 DEF own
<1>6. CASE \E a \in UNION {Spelled(q) : q \in Person} : c = [own EXCEPT !.address = a]
  <2>1. PICK a : c = [own EXCEPT !.address = a]
    BY <1>6
  <2>2. Fingerprint(own) = own.fingerprint /\ c.fingerprint = own.fingerprint
        /\ own.fingerprint # <<>> /\ c.sig = p
    BY <1>2, <2>1 DEF Fingerprint
  <2>3. ReadsBack(c) => Fingerprint(c) = Fingerprint(own)
    BY <2>2 DEF ReadsBack
  <2> QED
    BY <2>2, <2>3 DEF own
<1>7. CASE \E f \in {"sig", "x25519", "mlkem"}, q \in Person : c = [own EXCEPT ![f] = q]
  <2>1. PICK f \in {"sig", "x25519", "mlkem"}, q \in Person : c = [own EXCEPT ![f] = q]
    BY <1>7
  <2>2. Fingerprint(own) = own.fingerprint /\ c.fingerprint = own.fingerprint
        /\ own.fingerprint # <<>> /\ c.sig \in Person
    BY <1>2, <2>1 DEF Fingerprint
  <2>3. ReadsBack(c) => Fingerprint(c) = Fingerprint(own)
    BY <2>2 DEF ReadsBack
  <2> QED
    BY <2>2, <2>3 DEF own
<1>8. c \in OddBundles(p) =>
        \/ c = [own EXCEPT !.v = 2] \/ c = [own EXCEPT !.address = ""]
           \/ c = [own EXCEPT !.mlkem = "garbled"]
        \/ c = [own EXCEPT !.fingerprint = <<>>]
        \/ \E a \in UNION {Spelled(q) : q \in Person} : c = [own EXCEPT !.address = a]
        \/ \E f \in {"sig", "x25519", "mlkem"}, q \in Person : c = [own EXCEPT ![f] = q]
  <2> DEFINE fields == {[own EXCEPT ![f] = q] : f \in {"sig", "x25519", "mlkem"}, q \in Person}
             spellings == {[own EXCEPT !.address = a] : a \in UNION {Spelled(q) : q \in Person}}
             odd == {[own EXCEPT !.v = 2], [own EXCEPT !.address = ""],
                     [own EXCEPT !.mlkem = "garbled"], [own EXCEPT !.fingerprint = <<>>]}
  <2>1. OddBundles(p) = odd \cup fields \cup spellings
    BY DEF OddBundles, own
  <2>2. c \in fields => \E f \in {"sig", "x25519", "mlkem"}, q \in Person : c = [own EXCEPT ![f] = q]
    OBVIOUS
  <2>3. c \in spellings =>
          \E a \in UNION {Spelled(q) : q \in Person} : c = [own EXCEPT !.address = a]
    OBVIOUS
  <2>4. c \in odd => c = [own EXCEPT !.v = 2] \/ c = [own EXCEPT !.address = ""]
          \/ c = [own EXCEPT !.mlkem = "garbled"] \/ c = [own EXCEPT !.fingerprint = <<>>]
    BY Zenon
  <2> HIDE DEF fields, spellings, odd
  <2>5. c \in OddBundles(p) => c \in odd \/ c \in fields \/ c \in spellings
    BY <2>1
  <2> QED
    BY <2>2, <2>3, <2>4, <2>5, Zenon
<1>9. c \in OddBundles(p) \/ c = own
  BY <1>1 DEF own
<1> QED
  BY <1>3, <1>4, <1>5, <1>6, <1>7, <1>8, <1>9

(* Damage puts an odd value, or that of another sealed message, into one   *)
(* field; what a signature or an attached identity becomes.                *)
LEMMA OddFields ==
    /\ Odd("sig") = {Garbled}
    /\ Odd("sender_id") \subseteq {Nothing} \cup Bundles
<1>1. Odd("sig") = {Garbled}
  BY DEF Odd
<1>2. Odd("sender_id") = {Nothing} \cup UNION {OddBundles(p) : p \in Person}
  BY DEF Odd
<1>3. \A p \in Person : OddBundles(p) \subseteq Bundles
  BY DEF Bundles
<1> QED
  BY <1>1, <1>2, <1>3

-----------------------------------------------------------------------------
(* Keys and signatures. *)

(* The key is derived from the recipient and every field of the header     *)
(* ("Identity- and message-binding context", envelope.py:221).             *)
LEMMA KeyNamesRecipientAndHeader ==
    ASSUME NEW p, NEW q, NEW e, NEW g, KeyOf(p, e) = KeyOf(q, g)
    PROVE  p = q /\ Header(e) = Header(g)
<1>1. \A r, m : /\ KeyOf(r, m).transcript.static = r
                /\ KeyOf(r, m).transcript.context = Header(m)
  <2> TAKE r, m
  <2>1. Own(r).x25519 = r
    BY FingerprintNames DEF Own
  <2>2. KeyOf(r, m).transcript = Transcript(Own(r), Kem(m), Header(m))
    BY DEF KeyOf, Decapsulate, DeriveKey, KemContext, Canonical
  <2> QED
    BY <2>1, <2>2 DEF Transcript
<1> QED
  BY <1>1

(* Whatever seal makes is authentic: its signature covers what it carries, *)
(* and the recipient derives the key it was encrypted under.               *)
LEMMA SealIsAuthentic ==
    ASSUME NEW id \in Nat \ {0}, NEW from \in Person, NEW to \in Person,
           NEW spelling \in Spelled(to), NEW subject, subject # "too long",
           NEW attach \in BOOLEAN
    PROVE  Authentic([from |-> from, to |-> to,
                      envelope |-> Seal(id, from, Identity(to, spelling), subject, attach)])
<1> DEFINE public == Identity(to, spelling)
           h == [v |-> 1, id |-> id, ts |-> id, from_fp |-> Fingerprint(Own(from)),
                 to_fp |-> Fingerprint(public), subject |-> subject]
           x == [ephemeral |-> id]
           m == [under |-> to, secret |-> id]
           kem == [x25519 |-> x, mlkem |-> m]
           key == DeriveKey(Exchange(x, to), m, Transcript(public, kem, h))
           nonce == [n |-> id]
           ct == [key |-> key, nonce |-> nonce, ad |-> h, text |-> id]
           sig == [by |-> from, over |-> <<h, x, m, nonce, ct>>]
           e == Seal(id, from, public, subject, attach)
<1>1. public.x25519 = to /\ public.mlkem = to /\ Own(to).x25519 = to /\ Own(to).mlkem = to
      /\ Fingerprint(public) = Fingerprint(Own(to))
  BY FingerprintNames, FingerprintIgnoresSpelling DEF Own
<1>2. Encapsulate(public, id, h) = [kem |-> kem, key |-> key]
  BY <1>1 DEF Encapsulate
<1>3. e = [v |-> 1, id |-> id, ts |-> id, from_fp |-> Fingerprint(Own(from)),
           to_fp |-> Fingerprint(public), subject |-> subject, x25519 |-> x, mlkem |-> m,
           nonce |-> nonce, ct |-> ct, sig |-> sig,
           sender_id |-> IF attach THEN Own(from) ELSE Nothing]
  <2>1. KemContext(h) = h /\ Canonical(h) = h
    BY DEF KemContext, Canonical
  <2> DEFINE agreed == Encapsulate(public, id, KemContext(h))
             c == [key |-> agreed.key, nonce |-> [n |-> id], ad |-> Canonical(h), text |-> id]
  <2>2. agreed.kem = kem /\ agreed.key = key /\ agreed.kem.x25519 = x /\ agreed.kem.mlkem = m
    <3>1. agreed = [kem |-> kem, key |-> key]
      BY <1>2, <2>1
    <3>2. kem.x25519 = x /\ kem.mlkem = m
      OBVIOUS
    <3> HIDE DEF agreed, kem, key
    <3> QED
      BY <3>1, <3>2
  <2>3. c = ct
    BY <2>1, <2>2
  <2>4. SignedBytes(h, agreed.kem, [n |-> id], c) = <<h, x, m, nonce, ct>>
    BY <2>1, <2>2, <2>3 DEF SignedBytes
  <2>5. e = [v |-> 1, id |-> id, ts |-> id, from_fp |-> h.from_fp, to_fp |-> h.to_fp,
             subject |-> subject, x25519 |-> agreed.kem.x25519, mlkem |-> agreed.kem.mlkem,
             nonce |-> [n |-> id], ct |-> c,
             sig |-> [by |-> from, over |-> SignedBytes(h, agreed.kem, [n |-> id], c)],
             sender_id |-> IF attach THEN Own(from) ELSE Nothing]
    BY DEF Seal
  <2>6. h.from_fp = Fingerprint(Own(from)) /\ h.to_fp = Fingerprint(public)
    OBVIOUS
  <2> HIDE DEF h, c, agreed, public, x, m, kem, key, ct, e
  <2> QED
    BY <2>2, <2>3, <2>4, <2>5, <2>6
<1> HIDE DEF public, x, m, nonce, ct, sig, key, e, h, kem
<1>4. /\ DOMAIN e = FieldNames
      /\ e.v = 1 /\ e.id = id /\ e.ts = id /\ e.subject = subject
      /\ e.from_fp = Fingerprint(Own(from)) /\ e.to_fp = Fingerprint(Own(to))
      /\ e.x25519 = x /\ e.mlkem = m /\ e.nonce = nonce /\ e.ct = ct /\ e.sig = sig
      /\ e.sender_id \in {Nothing, Own(from)}
  <2>1. DOMAIN e = FieldNames
    BY <1>3 DEF FieldNames, HeaderFields
  <2> QED
    BY <1>1, <1>3, <2>1
<1>5. Header(e) = h
  <2>1. h = [v |-> e.v, id |-> e.id, ts |-> e.ts, from_fp |-> e.from_fp,
             to_fp |-> e.to_fp, subject |-> e.subject]
    BY <1>1, <1>4 DEF h
  <2>2. DOMAIN h = HeaderFields
    BY <2>1 DEF HeaderFields
  <2>3. h = [f \in DOMAIN h |-> h[f]]
    BY <2>1
  <2>4. /\ h["v"] = e["v"] /\ h["id"] = e["id"] /\ h["ts"] = e["ts"]
        /\ h["from_fp"] = e["from_fp"] /\ h["to_fp"] = e["to_fp"] /\ h["subject"] = e["subject"]
    BY <2>1
  <2>5. \A f \in HeaderFields : h[f] = e[f]
    BY <2>4 DEF HeaderFields
  <2> QED
    BY <2>2, <2>3, <2>5 DEF Header
<1>6. Kem(e) = kem
  BY <1>4 DEF Kem, kem
<1>7. Garbled \notin {x, m, nonce, ct, sig}
  <2>1. "garbled" \in DOMAIN Garbled
    BY DEF Garbled
  <2>2. /\ "garbled" \notin DOMAIN x /\ "garbled" \notin DOMAIN m /\ "garbled" \notin DOMAIN nonce
        /\ "garbled" \notin DOMAIN ct /\ "garbled" \notin DOMAIN sig
    BY DEF x, m, nonce, ct, sig
  <2> QED
    BY <2>1, <2>2
<1>8. sig.by = from /\ sig.over = SignedBytes(Header(e), Kem(e), e.nonce, e.ct)
  <2>1. sig.by = from /\ sig.over = <<h, x, m, nonce, ct>>
    BY DEF sig
  <2>2. kem.x25519 = x /\ kem.mlkem = m
    BY DEF kem
  <2> QED
    BY <1>4, <1>5, <1>6, <2>1, <2>2 DEF SignedBytes, Canonical
<1>9. ct.key = KeyOf(to, e) /\ ct.nonce = e.nonce /\ ct.ad = Header(e)
  <2>1. m.under = to
    BY DEF m
  <2>2. kem.x25519 = x /\ kem.mlkem = m
    BY DEF kem
  <2>3. KeyOf(to, e) = DeriveKey(Exchange(x, to), Decaps(to, m), Transcript(Own(to), kem, h))
    BY <1>5, <1>6, <2>2 DEF KeyOf, Decapsulate, KemContext, Canonical
  <2>4. Decaps(to, m) = m /\ Transcript(Own(to), kem, h) = Transcript(public, kem, h)
    BY <1>1, <2>1 DEF Decaps, Transcript
  <2>5. ct.key = key /\ ct.nonce = nonce /\ ct.ad = h
    BY DEF ct
  <2> QED
    BY <1>4, <1>5, <2>3, <2>4, <2>5 DEF key
<1>10. [from |-> from, to |-> to, envelope |-> e].envelope = e
       /\ [from |-> from, to |-> to, envelope |-> e].from = from
       /\ [from |-> from, to |-> to, envelope |-> e].to = to
  OBVIOUS
<1> QED
  BY <1>4, <1>7, <1>8, <1>9, <1>10 DEF Authentic, e, public

(* A sealed message passes every check of the one it was sealed for, under *)
(* whichever spelling its sender is known.                                 *)
LEMMA AuthenticParses ==
    ASSUME NEW l, Authentic(l)
    PROVE  Parses(l.envelope)
<1> DEFINE e == l.envelope
<1>1. e.v = 1 /\ e.id > 0 /\ e.ts > 0 /\ e.subject # "too long"
  <2>1. e.id \in Nat \ {0} /\ e.ts \in Nat \ {0} /\ e.v = 1 /\ e.subject # "too long"
    BY DEF Authentic
  <2>2. \A n \in Nat \ {0} : n > 0
    OBVIOUS
  <2> QED
    BY <2>1, <2>2
<1>2. <<>> \notin {e.from_fp, e.to_fp}
  <2>1. \A p \in Person : Fingerprint(Own(p)) # <<>>
    BY OwnReadsBack
  <2> QED
    BY <2>1 DEF Authentic
<1>3. Garbled \notin {e.x25519, e.mlkem, e.nonce, e.ct, e.sig}
  BY DEF Authentic
<1>4. AttachedAsNamed(e)
  BY OwnReadsBack DEF Authentic, AttachedAsNamed
<1> QED
  BY <1>1, <1>2, <1>3, <1>4 DEF Parses

LEMMA AuthenticOpens ==
    ASSUME NEW l, Authentic(l), NEW c, c.sig = l.from
    PROVE  Signs(c, l.envelope) /\ Decrypts(l.to, l.envelope)
  BY DEF Authentic, Signs, Decrypts, Canonical

(* A message that verifies is one that was sealed, by the owner of the     *)
(* key, but for the identity attached to it ("Everything the sender's      *)
(* signature covers", envelope.py:227).                                    *)
LEMMA SignatureCoversAll ==
    ASSUME NEW l, Authentic(l), NEW e, NEW c, Signs(c, e), e.sig = l.envelope.sig
    PROVE  l.from = c.sig /\ \A f \in FieldNames \ {"sender_id"} : e[f] = l.envelope[f]
<1> DEFINE g == l.envelope
<1>1. l.from = c.sig
      /\ SignedBytes(Header(e), Kem(e), e.nonce, e.ct) = SignedBytes(Header(g), Kem(g), g.nonce, g.ct)
  BY DEF Authentic, Signs
<1>2. Header(e) = Header(g) /\ Kem(e).x25519 = Kem(g).x25519 /\ Kem(e).mlkem = Kem(g).mlkem
      /\ e.nonce = g.nonce /\ e.ct = g.ct
  BY <1>1 DEF SignedBytes, Canonical
<1>3. e.x25519 = g.x25519 /\ e.mlkem = g.mlkem
  BY <1>2 DEF Kem
<1>4. \A f \in HeaderFields : e[f] = g[f]
  <2>1. \A f \in HeaderFields : Header(e)[f] = e[f] /\ Header(g)[f] = g[f]
    BY DEF Header
  <2> QED
    BY <1>2, <2>1
<1> QED
  BY <1>1, <1>2, <1>3, <1>4 DEF FieldNames

-----------------------------------------------------------------------------
(* The invariant holds at first.                                           *)
LEMMA Initial == Init => Inv
<1> SUFFICES ASSUME Init PROVE Inv
  OBVIOUS
<1>1. IsFiniteSet(ledger) /\ ledger = {} /\ damage = 0 /\ mail = <<>> /\ stage = "writing"
  BY FS_EmptySet DEF Init
<1>2. mail \in Seq({}) /\ DOMAIN mail = {}
  BY <1>1
<1>3. Identities /\ forged \in BOOLEAN
  <2>1. ~forged => known \cap Strangers = {}
    BY DEF Init
  <2>2. ASSUME ~forged, NEW b \in known PROVE Whole(b)
    <3>1. PICK p \in Person : b \in {Identity(p, a) : a \in Spelled(p)}
      BY <2>1, <2>2 DEF Init
    <3>2. PICK a \in Spelled(p) : b = Identity(p, a)
      BY <3>1
    <3> QED
      BY <3>2, FingerprintIgnoresSpelling DEF Whole
  <2> QED
    BY <1>1, <2>2 DEF Init, Identities
<1> QED
  BY <1>1, <1>2, <1>3 DEF Inv, Past, UndamagedIsRead

-----------------------------------------------------------------------------
(* Writing and sending. *)

(* seal adds an authentic message.                                         *)
LEMMA WriteKeeps ==
    ASSUME Inv, NEW from \in Person, NEW to \in Person, NEW spelling \in Spelled(to),
           NEW subject, NEW attach \in BOOLEAN, Write(from, to, spelling, subject, attach)
    PROVE  Inv'
<1> DEFINE new == [from |-> from, to |-> to,
                   envelope |-> Seal(Next_id, from, Identity(to, spelling), subject, attach)]
<1>1. /\ stage = "writing" /\ subject # "too long" /\ ledger' = ledger \cup {new}
      /\ UNCHANGED <<mail, damage, forged, known, stage, sender, text>>
  BY DEF Write
<1>2. Next_id \in Nat \ {0}
  BY FS_CardinalityType DEF Inv, Next_id
<1>3. Authentic(new)
  BY <1>1, <1>2, SealIsAuthentic
<1> HIDE DEF new
<1>4. IsFiniteSet(ledger')
  BY <1>1, FS_AddElement DEF Inv
<1>5. mail' = <<>> /\ DOMAIN mail' = {} /\ \E S : mail' \in Seq(S)
  <2>1. mail' = <<>>
    BY <1>1 DEF Inv
  <2>2. mail' \in Seq({}) /\ DOMAIN mail' = {}
    BY <2>1
  <2> QED
    BY <2>1, <2>2
<1>6. Identities' /\ UndamagedIsRead'
  BY <1>1 DEF Inv, Identities, UndamagedIsRead
<1> QED
  BY <1>1, <1>3, <1>4, <1>5, <1>6 DEF Inv, Past

(* Blocks as they are sent.                                                *)
LEMMA SentBlocks ==
    ASSUME Inv, NEW b, DOMAIN b = {"kind", "payload", "whole"},
           \/ b.kind = "MESSAGE" /\ \E l \in ledger : b.payload = l.envelope
           \/ b.kind = "IDENTITY" /\ \E p \in Person : b.payload = Own(p)
    PROVE  BlockOK(b, forged)
<1>1. ASSUME NEW l \in ledger PROVE FieldsOK(l.envelope, forged)
  <2>1. DOMAIN l.envelope = FieldNames /\ l.from \in Person
        /\ l.envelope.sender_id \in {Nothing, Own(l.from)}
    BY DEF Inv, Authentic
  <2>2. Own(l.from) \in Bundles
    BY <2>1 DEF Bundles
  <2>3. l.envelope.sig \in {m.envelope.sig : m \in ledger}
    OBVIOUS
  <2> QED
    BY <2>1, <2>2, <2>3 DEF FieldsOK
<1>2. \A p \in Person : Own(p) \in Bundles
  BY DEF Bundles
<1> QED
  BY <1>1, <1>2 DEF BlockOK

(* What is sent is a sealed message, or somebody's own identity.           *)
LEMMA SendsKeeps ==
    ASSUME Inv, (\E l \in ledger : Post(l)) \/ (\E p \in Person : Invite(p))
    PROVE  Inv'
<1>1. PICK block : Sends(block) /\ block.whole /\ DOMAIN block = {"kind", "payload", "whole"}
          /\ \/ block.kind = "MESSAGE" /\ \E l \in ledger : block.payload = l.envelope
             \/ block.kind = "IDENTITY" /\ \E p \in Person : block.payload = Own(p)
  <2>1. ASSUME NEW l \in ledger, Post(l)
        PROVE  \E block : Sends(block) /\ block.whole /\ DOMAIN block = {"kind", "payload", "whole"}
                 /\ block.kind = "MESSAGE" /\ block.payload = l.envelope
    BY <2>1 DEF Post, Armor
  <2>2. ASSUME NEW p \in Person, Invite(p)
        PROVE  \E block : Sends(block) /\ block.whole /\ DOMAIN block = {"kind", "payload", "whole"}
                 /\ block.kind = "IDENTITY" /\ block.payload = Own(p)
    BY <2>2 DEF Invite, Armor
  <2> QED
    BY <2>1, <2>2
<1>2. /\ stage = "writing" /\ stage' = "sent" /\ mail' = <<block>>
      /\ UNCHANGED <<ledger, damage, forged, known, sender, text>>
  BY <1>1 DEF Sends
<1>3. /\ mail' \in Seq({block}) /\ Len(mail') = 1 /\ DOMAIN mail' = {1} /\ mail'[1] = block
  BY <1>2
<1>4. BlockOK(block, forged)
  BY <1>1, SentBlocks
<1>5. BlockOK(block, forged)'
  BY <1>2, <1>4 DEF BlockOK, FieldsOK
<1>6. AsSent'
  BY <1>1, <1>2, <1>3 DEF AsSent
<1>7. Identities' /\ UndamagedIsRead'
  BY <1>2 DEF Inv, Identities, UndamagedIsRead
<1>8. (\E S : mail' \in Seq(S)) /\ \A i \in DOMAIN mail' : BlockOK(mail[i], forged)'
  BY <1>3, <1>5
<1>9. IsFiniteSet(ledger') /\ damage' \in Nat /\ \A l \in ledger' : Authentic(l)
  BY <1>2 DEF Inv
<1> QED
  BY <1>2, <1>3, <1>6, <1>7, <1>8, <1>9 DEF Inv, Past

-----------------------------------------------------------------------------
(* The mail path.                                                          *)

(* A change on the way keeps the invariant if every block is still of a    *)
(* kind that the mail path can make.                                       *)
LEMMA ChangeKeeps ==
    ASSUME Inv, stage = "sent", damage' = damage + 1,
           UNCHANGED <<ledger, known, stage, sender, text>>, forged' \in {forged, TRUE},
           \E S : mail' \in Seq(S), Len(mail') > 0,
           \A i \in DOMAIN mail' : BlockOK(mail'[i], forged')
    PROVE  Inv'
<1>1. damage' \in Nat /\ damage' # 0 /\ forged' \in BOOLEAN /\ (forged => forged')
  <2>1. damage \in Nat /\ forged \in BOOLEAN
    BY DEF Inv
  <2>2. damage' \in Nat /\ damage' # 0
    BY <2>1
  <2>3. forged' = forged \/ forged' = TRUE
    BY Zenon
  <2>4. forged' \in BOOLEAN /\ (forged => forged')
    BY <2>1, <2>3, Zenon
  <2> QED
    BY <2>2, <2>4
<1>2. \A i \in DOMAIN mail' : BlockOK(mail[i], forged)'
  BY DEF BlockOK, FieldsOK
<1>3. Identities' /\ UndamagedIsRead'
  BY <1>1 DEF Inv, Identities, UndamagedIsRead
<1> QED
  BY <1>1, <1>2, <1>3 DEF Inv, Past

(* What a block may hold, it may hold once something was forged.           *)
LEMMA ForgeryAllows ==
    ASSUME NEW b, NEW any \in BOOLEAN, BlockOK(b, any)
    PROVE  BlockOK(b, TRUE)
  BY DEF BlockOK, FieldsOK

(* One block is exchanged for another.                                     *)
LEMMA ExchangeKeeps ==
    ASSUME Inv, NEW i \in DOMAIN mail, NEW b, BlockOK(b, forged'),
           stage = "sent", damage' = damage + 1, mail' = [mail EXCEPT ![i] = b],
           UNCHANGED <<ledger, known, stage, sender, text>>, forged' \in {forged, TRUE}
    PROVE  Inv'
<1>1. PICK S : mail \in Seq(S)
  BY DEF Inv
<1>2. Len(mail) \in Nat /\ Len(mail) > 0 /\ DOMAIN mail = 1..Len(mail)
  BY <1>1 DEF Inv
<1>3. mail \in Seq(S \cup {b})
  BY <1>1, <1>2
<1>4. mail' \in Seq(S \cup {b}) /\ Len(mail') = Len(mail)
  BY <1>2, <1>3
<1>5. \A j \in DOMAIN mail' : mail'[j] = IF j = i THEN b ELSE mail[j]
  BY <1>2, <1>3
<1>6. DOMAIN mail' = DOMAIN mail
  OBVIOUS
<1>7. \A j \in DOMAIN mail : BlockOK(mail[j], forged')
  BY ForgeryAllows DEF Inv
<1>8. \A j \in DOMAIN mail' : BlockOK(mail'[j], forged')
  BY <1>5, <1>6, <1>7
<1> QED
  BY <1>2, <1>4, <1>8, ChangeKeeps

LEMMA ChangesKeeps ==
    ASSUME Inv, mail # <<>>, NEW payload, Changes(payload), forged' \in {forged, TRUE},
           mail[1].kind = "MESSAGE" => FieldsOK(payload, forged'),
           mail[1].kind = "IDENTITY" => forged' \/ payload \in Bundles
    PROVE  Inv'
<1>1. 1 \in DOMAIN mail
  <2>1. PICK S : mail \in Seq(S)
    BY DEF Inv
  <2>2. Len(mail) \in Nat /\ Len(mail) > 0 /\ DOMAIN mail = 1..Len(mail)
    BY <2>1 DEF Inv, Changes
  <2> QED
    BY <2>2
<1>2. BlockOK(mail[1], forged)
  BY <1>1 DEF Inv
<1> PICK b : b = [mail[1] EXCEPT !.payload = payload]
  OBVIOUS
<1>3. DOMAIN b = {"kind", "payload", "whole"} /\ b.kind = mail[1].kind /\ b.payload = payload
  BY <1>2 DEF BlockOK
<1>4. BlockOK(b, forged')
  BY <1>2, <1>3 DEF BlockOK
<1>5. mail' = [mail EXCEPT ![1] = b]
  BY DEF Changes
<1> QED
  BY <1>1, <1>4, <1>5, ExchangeKeeps DEF Changes

(* Damage to one field of a message or of an invitation.                   *)
LEMMA DamageKeeps ==
    ASSUME Inv, (\E f \in FieldNames : DamageMessage(f)) \/ DamageInvitation
    PROVE  Inv'
<1>0. stage = "sent" /\ mail # <<>> /\ 1 \in DOMAIN mail
  <2>1. PICK S : mail \in Seq(S)
    BY DEF Inv
  <2>2. stage = "sent" /\ mail # <<>>
    BY DEF DamageMessage, DamageInvitation, Damages, Changes
  <2>3. Len(mail) \in Nat /\ Len(mail) > 0 /\ DOMAIN mail = 1..Len(mail)
    BY <2>1, <2>2 DEF Inv
  <2> QED
    BY <2>2, <2>3
<1>1. BlockOK(mail[1], forged)
  BY <1>0 DEF Inv
<1>2. ASSUME NEW f \in FieldNames, DamageMessage(f) PROVE Inv'
  <2>1. PICK x \in Odd(f) \cup {l.envelope[f] : l \in ledger} :
            Damages([mail[1].payload EXCEPT ![f] = x])
    BY <1>2 DEF DamageMessage
  <2> PICK e : e = mail[1].payload
    OBVIOUS
  <2> PICK g : g = [e EXCEPT ![f] = x]
    OBVIOUS
  <2>2. mail[1].kind = "MESSAGE" /\ FieldsOK(e, forged)
    BY <1>1, <1>2 DEF DamageMessage, BlockOK
  <2>3. DOMAIN g = FieldNames
    BY <2>2 DEF FieldsOK
  <2>4. g.sig = IF f = "sig" THEN x ELSE e.sig
    BY <2>2 DEF FieldsOK, FieldNames
  <2>5. g.sender_id = IF f = "sender_id" THEN x ELSE e.sender_id
    BY <2>2 DEF FieldsOK, FieldNames
  <2>6. f = "sig" => x \in {Garbled} \cup {l.envelope.sig : l \in ledger}
    BY OddFields
  <2>7. f = "sender_id" => x \in {Nothing} \cup Bundles
    <3>1. \A l \in ledger : l.envelope.sender_id \in {Nothing} \cup Bundles
      <4> SUFFICES ASSUME NEW l \in ledger
                   PROVE  l.envelope.sender_id \in {Nothing} \cup Bundles
        OBVIOUS
      <4>1. l.from \in Person /\ l.envelope.sender_id \in {Nothing, Own(l.from)}
        BY DEF Inv, Authentic
      <4> QED
        BY <4>1 DEF Bundles
    <3> QED
      BY <3>1, OddFields
  <2>8. FieldsOK(g, forged)
    BY <2>2, <2>3, <2>4, <2>5, <2>6, <2>7 DEF FieldsOK
  <2> QED
    BY <1>0, <2>1, <2>2, <2>8, ChangesKeeps DEF Damages
<1>3. ASSUME DamageInvitation PROVE Inv'
  <2>1. mail[1].kind = "IDENTITY" /\ (forged \/ mail[1].payload \in Bundles)
    BY <1>1, <1>3 DEF DamageInvitation, BlockOK
  <2>2. PICK b \in OddBundles(mail[1].payload.sig) : Damages(b)
    BY <1>3 DEF DamageInvitation
  <2>3. forged \/ b \in Bundles
    <3> SUFFICES ASSUME ~forged PROVE b \in Bundles
      OBVIOUS
    <3>1. mail[1].payload.sig \in Person
      BY <2>1, BundlesAreWhole
    <3> QED
      BY <2>2, <3>1 DEF Bundles
  <2> QED
    BY <1>0, <2>1, <2>2, <2>3, ChangesKeeps DEF Damages
<1> QED
  BY <1>2, <1>3

(* An identity is made up, and what names it with it.                      *)
LEMMA ForgeKeeps ==
    ASSUME Inv, NEW b, ForgeInvitation(b) \/ ForgeSender(b)
    PROVE  Inv'
<1>1. CASE ForgeInvitation(b)
  BY <1>1, ChangesKeeps DEF ForgeInvitation, Forges
<1>2. CASE ForgeSender(b)
  <2> PICK e : e = mail[1].payload
    OBVIOUS
  <2> PICK g : g = [e EXCEPT !.sender_id = b, !.from_fp = Fingerprint(b)]
    OBVIOUS
  <2>1. mail # <<>> /\ mail[1].kind = "MESSAGE" /\ Changes(g) /\ forged' = TRUE
    BY <1>2 DEF ForgeSender, Forges
  <2>2. 1 \in DOMAIN mail
    <3>1. PICK S : mail \in Seq(S)
      BY DEF Inv
    <3> QED
      BY <2>1, <3>1
  <2>3. DOMAIN e = FieldNames /\ e.sig \in {Garbled} \cup {l.envelope.sig : l \in ledger}
    BY <2>1, <2>2 DEF Inv, BlockOK, FieldsOK
  <2>4. DOMAIN g = FieldNames /\ g.sig = e.sig
    BY <2>3
  <2>5. FieldsOK(g, TRUE)
    BY <2>3, <2>4 DEF FieldsOK
  <2> QED
    BY <2>1, <2>5, ChangesKeeps
<1> QED
  BY <1>1, <1>2

(* A block is quoted below the mail's own, or loses its end.               *)
LEMMA QuoteKeeps ==
    ASSUME Inv, \/ \E l \in ledger : Quote(Armor("MESSAGE", l.envelope))
                \/ \E p \in Person : Quote(Armor("IDENTITY", Own(p)))
    PROVE  Inv'
<1>1. PICK b : Quote(b) /\ BlockOK(b, forged)
  <2>1. ASSUME NEW l \in ledger PROVE BlockOK(Armor("MESSAGE", l.envelope), forged)
    BY SentBlocks DEF Armor
  <2>2. ASSUME NEW p \in Person PROVE BlockOK(Armor("IDENTITY", Own(p)), forged)
    BY SentBlocks DEF Armor
  <2> QED
    BY <2>1, <2>2
<1>2. PICK S : mail \in Seq(S)
  BY DEF Inv
<1>3. mail \in Seq(S \cup {b}) /\ mail' = Append(mail, b)
  BY <1>1, <1>2 DEF Quote
<1>4. /\ mail' \in Seq(S \cup {b}) /\ Len(mail') = Len(mail) + 1 /\ Len(mail) \in Nat
      /\ \A j \in DOMAIN mail' : mail'[j] = b \/ (j \in DOMAIN mail /\ mail'[j] = mail[j])
  BY <1>3
<1>5. Len(mail') > 0 /\ \A j \in DOMAIN mail' : BlockOK(mail'[j], forged)
  BY <1>1, <1>4 DEF Inv
<1> QED
  BY <1>1, <1>4, <1>5, ChangeKeeps DEF Quote

LEMMA CutOffKeeps ==
    ASSUME Inv, NEW i \in DOMAIN mail, CutOff(i)
    PROVE  Inv'
<1> PICK b : b = [mail[i] EXCEPT !.whole = FALSE]
  OBVIOUS
<1>1. BlockOK(mail[i], forged)
  BY DEF Inv
<1>2. DOMAIN b = {"kind", "payload", "whole"} /\ b.kind = mail[i].kind
      /\ b.payload = mail[i].payload
  BY <1>1 DEF BlockOK
<1>3. BlockOK(b, forged)
  BY <1>1, <1>2 DEF BlockOK
<1>4. mail' = [mail EXCEPT ![i] = b]
  BY DEF CutOff
<1> QED
  BY <1>3, <1>4, ExchangeKeeps DEF CutOff

-----------------------------------------------------------------------------
(* Reading.                                                                *)

Arrived(e) ==
    /\ FieldsOK(e, forged) /\ Parses(e) /\ e.to_fp = Fingerprint(Own(Reader))
    /\ damage = 0 => e = mail[1].payload /\ mail[1].kind = "MESSAGE"

(* A step of the reader leaves the mail as it is.                          *)
LEMMA ReaderKeeps ==
    ASSUME Inv, stage # "writing", stage' # "writing", UNCHANGED <<ledger, mail, damage, forged>>,
           stage' \in {"parsed", "resolved", "verified", "opened"} => Arrived(TheEnvelope),
           stage' \in {"resolved", "verified", "opened"} =>
                Fingerprint(sender') = TheEnvelope.from_fp,
           stage' \in {"verified", "opened"} => Signs(sender', TheEnvelope),
           stage' = "opened" => text' = TheEnvelope.ct.text,
           Identities', UndamagedIsRead'
    PROVE  Inv'
<1>1. TheEnvelope' = TheEnvelope
  BY DEF TheEnvelope, Payload, BlocksOf
<1>2. \A e : FieldsOK(e, forged) <=> FieldsOK(e, forged)'
  BY DEF FieldsOK
<1>3. \A b : BlockOK(b, forged) <=> BlockOK(b, forged)'
  BY <1>2 DEF BlockOK
<1>4. AsSent => AsSent'
  BY DEF AsSent
<1> PICK e : e = TheEnvelope
  OBVIOUS
<1>5. Past({"parsed", "resolved", "verified", "opened"})' => FieldsOK(e, forged)' /\ Parses(e)
        /\ e.to_fp = Fingerprint(Own(Reader))
        /\ (damage' = 0 => e = mail'[1].payload /\ mail'[1].kind = "MESSAGE")
  BY <1>2 DEF Past, Arrived
<1> QED
  BY <1>1, <1>3, <1>4, <1>5 DEF Inv, Past

(* A mail that is as it was sent has one block, which is found.            *)
LEMMA OneBlock ==
    ASSUME Inv, damage = 0, stage # "writing", NEW kind
    PROVE  /\ mail[1].kind = kind =>
                Contains(kind) /\ Dearmors(kind) /\ Payload(kind) = mail[1].payload
           /\ mail[1].kind # kind => ~Contains(kind)
<1>1. DOMAIN mail = {1} /\ mail[1].whole
  <2>1. PICK S : mail \in Seq(S)
    BY DEF Inv
  <2>2. Len(mail) = 1 /\ mail[1].whole
    BY DEF Inv, AsSent
  <2> QED
    BY <2>1, <2>2
<1>2. mail[1].kind = kind => BlocksOf(kind) = {1}
  BY <1>1 DEF BlocksOf
<1>3. mail[1].kind # kind => BlocksOf(kind) = {}
  BY <1>1 DEF BlocksOf
<1>4. Cardinality({1}) = 1
  BY FS_Singleton
<1> QED
  BY <1>1, <1>2, <1>3, <1>4 DEF Contains, Dearmors, Payload

(* What was addressed to somebody names them.                              *)
LEMMA AddresseeNamed ==
    ASSUME NEW l, Authentic(l)
    PROVE  /\ l.envelope.to_fp = Fingerprint(Own(Reader)) <=> l.to = Reader
           /\ \A b : Fingerprint(b) = l.envelope.from_fp => b.sig = l.from
<1>1. Reader \in Person /\ l.to \in Person /\ l.from \in Person
      /\ l.envelope.to_fp = Fingerprint(Own(l.to)) /\ l.envelope.from_fp = Fingerprint(Own(l.from))
  BY PersonAssumption DEF Authentic
<1>2. \A p \in Person : Fingerprint(Own(p)) = <<Lower(Address(p)), p, p, p>>
  BY OwnReadsBack
<1>3. \A b : Fingerprint(b)[2] = b.sig
  BY DEF Fingerprint
<1> QED
  BY <1>1, <1>2, <1>3

LEMMA ExamineKeeps == Inv /\ Examine => Inv'
<1> SUFFICES ASSUME Inv, Examine PROVE Inv'
  OBVIOUS
<1>1. /\ stage = "sent" /\ ~Contains("IDENTITY") /\ Contains("MESSAGE")
      /\ UNCHANGED <<ledger, mail, damage, forged, known, sender, text>>
      /\ stage' \in {"parsed", "refused"}
  BY DEF Examine, Becomes
<1>2. Identities'
  BY <1>1 DEF Inv, Identities
<1>3. CASE stage' = "parsed"
  <2>1. Dearmors("MESSAGE") /\ Parses(TheEnvelope) /\ TheEnvelope.to_fp = Fingerprint(Own(Reader))
    BY <1>3 DEF Examine, Becomes
  <2>2. PICK i \in BlocksOf("MESSAGE") : TheEnvelope = mail[i].payload
    BY <1>1 DEF Contains, TheEnvelope, Payload
  <2>3. FieldsOK(TheEnvelope, forged)
    BY <2>2 DEF BlocksOf, Inv, BlockOK
  <2>4. damage = 0 => TheEnvelope = mail[1].payload /\ mail[1].kind = "MESSAGE"
    BY <1>1, OneBlock DEF TheEnvelope
  <2>5. Arrived(TheEnvelope)
    BY <2>1, <2>3, <2>4 DEF Arrived
  <2> QED
    BY <1>1, <1>2, <1>3, <2>5, ReaderKeeps DEF UndamagedIsRead
<1>4. CASE stage' = "refused"
  <2>1. ~(Dearmors("MESSAGE") /\ Parses(TheEnvelope)
          /\ TheEnvelope.to_fp = Fingerprint(Own(Reader)))
    BY <1>4 DEF Examine, Becomes
  <2>2. ASSUME damage = 0
        PROVE  mail[1].kind = "MESSAGE" /\ \A l \in ledger : l.envelope = mail[1].payload => l.to # Reader
    <3>1. mail[1].kind = "MESSAGE" /\ Dearmors("MESSAGE") /\ TheEnvelope = mail[1].payload
      BY <1>1, <2>2, OneBlock DEF TheEnvelope
    <3>2. ASSUME NEW l \in ledger, l.envelope = mail[1].payload
          PROVE  l.to # Reader
      <4>1. Authentic(l)
        BY DEF Inv
      <4> QED
        BY <2>1, <3>1, <3>2, <4>1, AuthenticParses, AddresseeNamed
    <3> QED
      BY <3>1, <3>2
  <2>3. UndamagedIsRead'
    BY <1>1, <2>2 DEF UndamagedIsRead
  <2> QED
    BY <1>1, <1>2, <1>4, <2>3, ReaderKeeps
<1> QED
  BY <1>1, <1>3, <1>4

(* The sender is one who is stored under the fingerprint that the header   *)
(* names, or comes with the message and displaces nobody.                  *)
LEMMA ResolveKeeps == Inv /\ Resolve => Inv'
<1> SUFFICES ASSUME Inv, Resolve PROVE Inv'
  OBVIOUS
<1> DEFINE e == TheEnvelope
           stored == StoredAs(e.from_fp)
           candidates == IF stored # {} THEN stored ELSE {e.sender_id} \ {Nothing}
<1>1. stage = "parsed" /\ Arrived(e)
  BY DEF Resolve, Inv, Past, Arrived
<1>2. CASE candidates = {}
  <2>1. stage' = "refused" /\ UNCHANGED <<ledger, mail, damage, forged, known, sender, text>>
    BY <1>2 DEF Resolve, Becomes
  <2>2. stored = {} /\ e.sender_id = Nothing
    BY <1>2
  <2>3. Identities'
    BY <1>1, <2>1 DEF Inv, Identities
  <2>4. ASSUME damage = 0, NEW l \in ledger, l.envelope = mail[1].payload
        PROVE  l.envelope.sender_id = Nothing /\ StoredAs(l.envelope.from_fp) = {}
    BY <1>1, <2>2, <2>4 DEF Arrived
  <2>5. UndamagedIsRead'
    BY <1>1, <2>1, <2>4 DEF UndamagedIsRead, Arrived, StoredAs
  <2> QED
    BY <1>1, <2>1, <2>3, <2>5, ReaderKeeps
<1>3. CASE candidates # {}
  <2>1. /\ sender' \in candidates /\ known' = known \cup {sender'} /\ stage' = "resolved"
        /\ UNCHANGED <<ledger, mail, damage, forged, text>>
    BY <1>3 DEF Resolve
  <2>2. UndamagedIsRead'
    BY <2>1 DEF UndamagedIsRead
  <2>3. CASE stored # {}
    <3>1. sender' \in known /\ Fingerprint(sender') = e.from_fp
      BY <2>1, <2>3 DEF StoredAs
    <3>2. known' = known
      BY <2>1, <3>1
    <3>3. Identities'
      BY <1>1, <2>1, <3>2 DEF Inv, Identities
    <3> QED
      BY <1>1, <2>1, <2>2, <3>1, <3>3, ReaderKeeps
  <2>4. CASE stored = {}
    <3>1. sender' = e.sender_id /\ e.sender_id # Nothing
      BY <2>1, <2>4
    <3>2. ReadsBack(sender') /\ Fingerprint(sender') = e.from_fp
          /\ (forged \/ sender' \in Bundles)
      BY <1>1, <3>1 DEF Arrived, Parses, AttachedAsNamed, FieldsOK
    <3> PICK c : c = sender'
      OBVIOUS
    <3>6. forged \/ Whole(c)
      BY <3>2, BundlesAreWhole DEF Whole
    <3>7. Whole(c)' <=> Whole(c)
      BY DEF Whole
    <3>3. forged \/ Whole(sender')
      BY <3>6
    <3>4. \A b \in known : Fingerprint(b) # Fingerprint(sender')
      BY <2>4, <3>2 DEF StoredAs
    <3>5. Identities'
      BY <1>1, <2>1, <3>3, <3>4 DEF Inv, Identities
    <3> QED
      BY <1>1, <2>1, <2>2, <3>2, <3>5, ReaderKeeps
  <2> QED
    BY <2>3, <2>4
<1> QED
  BY <1>2, <1>3

(* What is as it was sent is refused neither for its signature             *)
LEMMA VerifyKeeps == Inv /\ Verify => Inv'
<1> SUFFICES ASSUME Inv, Verify PROVE Inv'
  OBVIOUS
<1> DEFINE e == TheEnvelope
<1>1. /\ stage = "resolved" /\ stage' \in {"verified", "refused"}
      /\ UNCHANGED <<ledger, mail, damage, forged, known, sender, text>>
  BY DEF Verify, Becomes
<1>2. Arrived(e) /\ Fingerprint(sender) = e.from_fp
  BY <1>1 DEF Inv, Past, Arrived
<1>3. Identities'
  BY <1>1 DEF Inv, Identities
<1>4. CASE stage' = "verified"
  <2>1. Signs(sender, e)
    BY <1>4 DEF Verify, Becomes
  <2> QED
    BY <1>1, <1>2, <1>3, <1>4, <2>1, ReaderKeeps DEF UndamagedIsRead
<1>5. CASE stage' = "refused"
  <2>1. ~Signs(sender, e)
    BY <1>2, <1>5 DEF Verify, Becomes
  <2>2. ASSUME damage = 0, NEW l \in ledger, l.envelope = mail[1].payload
        PROVE  FALSE
    <3>1. Authentic(l) /\ l.envelope = e
      BY <1>2, <2>2 DEF Inv, Arrived
    <3>2. sender.sig = l.from
      BY <1>2, <3>1, AddresseeNamed
    <3> QED
      BY <2>1, <3>1, <3>2, AuthenticOpens
  <2>3. UndamagedIsRead'
    BY <1>1, <1>2, <2>2 DEF UndamagedIsRead, Arrived
  <2> QED
    BY <1>1, <1>3, <1>5, <2>3, ReaderKeeps
<1> QED
  BY <1>1, <1>4, <1>5

(* nor by the key that decrypts it.                                        *)
LEMMA OpenKeeps == Inv /\ Open => Inv'
<1> SUFFICES ASSUME Inv, Open PROVE Inv'
  OBVIOUS
<1> DEFINE e == TheEnvelope
<1>1. /\ stage = "verified" /\ stage' \in {"opened", "refused"}
      /\ UNCHANGED <<ledger, mail, damage, forged, known, sender>>
      /\ stage' = "opened" => text' = e.ct.text
      /\ stage' = "refused" => ~Decrypts(Reader, e)
  BY DEF Open
<1>2. Arrived(e) /\ Fingerprint(sender) = e.from_fp /\ Signs(sender, e)
  BY <1>1 DEF Inv, Past, Arrived
<1>3. Identities'
  BY <1>1 DEF Inv, Identities
<1>4. UndamagedIsRead'
  <2>1. ASSUME stage' = "refused", damage = 0, NEW l \in ledger, l.envelope = mail[1].payload
        PROVE  FALSE
    <3>1. Authentic(l) /\ l.envelope = e
      BY <1>2, <2>1 DEF Inv, Arrived
    <3>2. l.to = Reader
      BY <1>2, <3>1, AddresseeNamed DEF Arrived
    <3>3. PICK c : c.sig = l.from
      <4>1. Own(l.from).sig = l.from
        BY FingerprintNames DEF Own
      <4> QED
        BY <4>1
    <3> QED
      BY <1>1, <2>1, <3>1, <3>2, <3>3, AuthenticOpens
  <2> QED
    BY <1>1, <1>2, <2>1 DEF UndamagedIsRead, Arrived
<1> QED
  BY <1>1, <1>2, <1>3, <1>4, ReaderKeeps

(* An invitation offers somebody's own identity, and nothing else.         *)
LEMMA ReadInvitationKeeps == Inv /\ ReadInvitation => Inv'
<1> SUFFICES ASSUME Inv, ReadInvitation PROVE Inv'
  OBVIOUS
<1> DEFINE b == Payload("IDENTITY")
<1>1. /\ stage = "sent" /\ Contains("IDENTITY") /\ stage' \in {"offered", "refused"}
      /\ UNCHANGED <<ledger, mail, damage, forged, known, text>>
      /\ stage' = "offered" => sender' = b /\ ReadsBack(b)
      /\ stage' = "refused" => ~(Dearmors("IDENTITY") /\ ReadsBack(b))
  BY DEF ReadInvitation
<1>2. forged \/ b \in Bundles
  <2>1. PICK i \in BlocksOf("IDENTITY") : b = mail[i].payload
    BY <1>1 DEF Contains, Payload
  <2> QED
    BY <2>1 DEF BlocksOf, Inv, BlockOK
<1>3. Identities'
  <2>1. ReadsBack(b) => forged \/ Whole(b)
    BY <1>2, BundlesAreWhole DEF Whole
  <2> HIDE DEF b
  <2> QED
    BY <1>1, <2>1 DEF Inv, Identities
<1>4. UndamagedIsRead'
  <2>1. ASSUME stage' = "refused", damage = 0
        PROVE  FALSE
    <3>1. mail[1].kind = "IDENTITY" /\ Dearmors("IDENTITY") /\ b = mail[1].payload
      BY <1>1, <2>1, OneBlock
    <3>2. PICK p \in Person : b = Own(p)
      BY <1>1, <2>1, <3>1 DEF Inv, AsSent
    <3> QED
      BY <1>1, <2>1, <3>1, <3>2, OwnReadsBack
  <2> QED
    BY <1>1, <2>1 DEF UndamagedIsRead
<1> QED
  BY <1>1, <1>3, <1>4, ReaderKeeps

(* Every step keeps the invariant.                                         *)
LEMMA Step == Inv /\ [Next]_vars => Inv'
<1> SUFFICES ASSUME Inv, [Next]_vars PROVE Inv'
  OBVIOUS
<1>1. CASE UNCHANGED vars
  <2>1. ledger' = ledger /\ mail' = mail /\ damage' = damage /\ forged' = forged /\ known' = known
        /\ stage' = stage /\ sender' = sender /\ text' = text
    BY <1>1 DEF vars
  <2>2. CASE stage = "writing"
    BY <2>1, <2>2 DEF Inv, Past, Identities, UndamagedIsRead
  <2>3. CASE stage # "writing"
    <3>1. Identities' /\ UndamagedIsRead'
      BY <2>1 DEF Inv, Identities, UndamagedIsRead, StoredAs
    <3> QED
      BY <2>1, <2>3, <3>1, ReaderKeeps DEF Inv, Past, Arrived
  <2> QED
    BY <2>2, <2>3
<1>2. ASSUME NEW from \in Person, NEW to \in Person, NEW subject \in Subject,
             NEW attach \in BOOLEAN, NEW spelling \in Spelled(to),
             Write(from, to, spelling, subject, attach)
      PROVE  Inv'
  BY <1>2, WriteKeeps
<1>3. CASE \/ \E l \in ledger : Post(l) \/ Quote(Armor("MESSAGE", l.envelope))
           \/ \E p \in Person : Invite(p) \/ Quote(Armor("IDENTITY", Own(p)))
  BY <1>3, SendsKeeps, QuoteKeeps
<1>4. CASE \/ (\E f \in FieldNames : DamageMessage(f)) \/ DamageInvitation
           \/ \E b \in MadeUp : ForgeInvitation(b) \/ ForgeSender(b)
  BY <1>4, DamageKeeps, ForgeKeeps
<1>5. CASE \E i \in DOMAIN mail : CutOff(i)
  BY <1>5, CutOffKeeps
<1>6. CASE Examine \/ Resolve \/ Verify \/ Open \/ ReadInvitation
  BY <1>6, ExamineKeeps, ResolveKeeps, VerifyKeeps, OpenKeeps, ReadInvitationKeeps
<1> QED
  BY <1>1, <1>2, <1>3, <1>4, <1>5, <1>6 DEF Next

-----------------------------------------------------------------------------
(* What the invariant says. *)

(* A message whose signature verifies is one of the ledger.                *)
LEMMA VerifiedIsSealed ==
    ASSUME Inv, stage \in {"verified", "opened"}
    PROVE  \E l \in ledger : /\ Authentic(l) /\ l.from = sender.sig
                             /\ \A f \in FieldNames \ {"sender_id"} : TheEnvelope[f] = l.envelope[f]
<1> DEFINE e == TheEnvelope
<1>1. FieldsOK(e, forged) /\ Parses(e) /\ Signs(sender, e)
  BY DEF Inv, Past
<1>2. PICK l \in ledger : e.sig = l.envelope.sig
  BY <1>1 DEF FieldsOK, Parses
<1>3. Authentic(l)
  BY DEF Inv
<1> HIDE DEF e
<1>4. l.from = sender.sig /\ \A f \in FieldNames \ {"sender_id"} : e[f] = l.envelope[f]
  BY <1>1, <1>2, <1>3, SignatureCoversAll
<1> QED
  BY <1>3, <1>4 DEF e

(* "Authorship is cryptographically bound" (envelope.py:17): whatever the  *)
(* mail path does to however many messages of however many people, what    *)
(* opens was sealed for this reader by the person it is attributed to, and *)
(* says what they wrote, with their subject, id and date.                  *)
THEOREM OpensAsSealed == Spec => []OpensOnlyAsSealed
<1>1. Inv => OpensOnlyAsSealed
  <2> SUFFICES ASSUME Inv, stage = "opened"
               PROVE  \E l \in ledger :
                        /\ l.to = Reader /\ Fingerprint(sender) = Fingerprint(Own(l.from))
                        /\ Header(TheEnvelope) = Header(l.envelope) /\ text = l.envelope.ct.text
    BY DEF OpensOnlyAsSealed
  <2> DEFINE e == TheEnvelope
  <2>1. PICK l \in ledger : Authentic(l)
                            /\ \A f \in FieldNames \ {"sender_id"} : e[f] = l.envelope[f]
    BY VerifiedIsSealed
  <2>2. e.to_fp = Fingerprint(Own(Reader)) /\ Fingerprint(sender) = e.from_fp /\ text = e.ct.text
    BY DEF Inv, Past
  <2> HIDE DEF e
  <2>3. e["to_fp"] = l.envelope["to_fp"] /\ e["from_fp"] = l.envelope["from_fp"]
        /\ e["ct"] = l.envelope["ct"] /\ \A f \in HeaderFields : e[f] = l.envelope[f]
    BY <2>1 DEF FieldNames, HeaderFields
  <2>4. l.to = Reader /\ Header(e) = Header(l.envelope)
    BY <2>1, <2>2, <2>3, AddresseeNamed DEF Header
  <2>5. Fingerprint(sender) = Fingerprint(Own(l.from)) /\ text = l.envelope.ct.text
    BY <2>1, <2>2, <2>3 DEF Authentic
  <2> QED
    BY <2>4, <2>5 DEF e
<1> QED
  BY <1>1, Initial, Step, PTL DEF Spec

(* "An unauthenticated sender cannot make us perform decapsulation work"   *)
(* (envelope.py:287): nothing is decapsulated but what the sender signed,  *)
(* every field of it; and the key that it would give, were there no        *)
(* signature, is that of no message with another header or recipient.      *)
THEOREM LayersBind == Spec => []EachLayerBinds
<1>1. Inv => EachLayerBinds
  <2>1. ASSUME Inv, stage \in {"verified", "opened"}
        PROVE  \E l \in ledger :
                 /\ l.from = sender.sig
                 /\ \A f \in FieldNames \ {"sender_id"} : TheEnvelope[f] = l.envelope[f]
    BY <2>1, VerifiedIsSealed
  <2>2. ASSUME Inv, NEW l \in ledger, KeyOf(Reader, TheEnvelope) = l.envelope.ct.key
        PROVE  l.to = Reader /\ Header(TheEnvelope) = Header(l.envelope)
    <3>1. KeyOf(Reader, TheEnvelope) = KeyOf(l.to, l.envelope)
      BY <2>2 DEF Inv, Authentic
    <3> QED
      BY <3>1, KeyNamesRecipientAndHeader
  <2> QED
    BY <2>1, <2>2 DEF EachLayerBinds
<1> QED
  BY <1>1, Initial, Step, PTL DEF Spec

(* What arrives as it was sent is read: a message by whoever it was sealed *)
(* for, if they know the sender or the sender's identity is attached, and  *)
(* an invitation by anyone, for every way of spelling the addresses.       *)
THEOREM NothingUndamagedIsRefused == Spec => []UndamagedIsRead
<1>1. Inv => UndamagedIsRead
  BY DEF Inv
<1> QED
  BY <1>1, Initial, Step, PTL DEF Spec

(* An identity that is nobody's whole one comes in, as a contact or as an  *)
(* offer, only where the mail path made it up together with every          *)
(* fingerprint that names it; nothing verifies under one, before or after  *)
(* it became a contact, and none displaces an identity that was stored.    *)
THEOREM StrangersAreForged == Spec => []WholeUnlessForged
<1>1. Inv => WholeUnlessForged
  <2> SUFFICES ASSUME Inv PROVE WholeUnlessForged
    OBVIOUS
  <2>1. ASSUME stage \in {"verified", "opened"} PROVE Whole(sender)
    <3>1. PICK l \in ledger : Authentic(l)
              /\ \A f \in FieldNames \ {"sender_id"} : TheEnvelope[f] = l.envelope[f]
      BY <2>1, VerifiedIsSealed
    <3>2. Fingerprint(sender) = TheEnvelope.from_fp
      BY <2>1 DEF Inv, Past
    <3>3. TheEnvelope["from_fp"] = l.envelope["from_fp"]
      BY <3>1 DEF FieldNames, HeaderFields
    <3> QED
      BY <3>1, <3>2, <3>3 DEF Authentic, Whole
  <2> QED
    BY <2>1 DEF Inv, Identities, WholeUnlessForged
<1> QED
  BY <1>1, Initial, Step, PTL DEF Spec
=============================================================================
