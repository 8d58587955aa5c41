----------------------------- MODULE MCEnvelope -----------------------------
(* Three people, two of whom others know under an address with a capital,  *)
(* and one earlier forgery: the signing key of one with the other's kem.   *)
EXTENDS Envelope

MCAddress(p) == p \o "@x"
MCSpelled(p) ==
    CASE p = "alice" -> {"Alice@x"}
      [] p = "bob" -> {"Bob@x"}
      [] p = "carol" -> {"carol@x"}
MCLower(a) ==
    CASE a = "Alice@x" -> "alice@x"
      [] a = "Bob@x" -> "bob@x"
      [] OTHER -> a
MCStrangers == {[Own("alice") EXCEPT !.mlkem = "carol", !.fingerprint = <<>>]}
=============================================================================
