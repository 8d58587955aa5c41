----------------------------- MODULE MCKeystore -----------------------------
(* A small instance of Keystore: two processes, one address, two spellings *)
(* and a mistake in every field of the file.                               *)
EXTENDS Keystore, TLC

MCLower(a) == IF a = "Alice@x" THEN "alice@x" ELSE a

MCBackupOf == {[id |-> 1, address |-> "alice@x", pass |-> "correct horse"]}

Numbers(is) == {[form |-> form, is |-> is] : form \in {"float", "text"}}

(* Damage, a slip of an editor, or fields of another file. *)
MCOdd(f) ==
    CASE f = "v" -> Numbers(1) \cup {Number(2)}
      [] f = "address" -> {"Alice@x", "bob@x"}
      [] f = "fingerprint" -> {<<1, "bob@x">>}
      [] f = "name" -> {"argon2"}
      [] f = "n" -> Numbers(65536) \cup {Number(0), Number(8192), Number(65537), Number(2097152)}
      [] f = "r" -> Numbers(8) \cup {Number(33)}
      [] f = "p" -> Numbers(1) \cup {Number(0), [form |-> "junk", is |-> 1]}
      [] f = "salt" -> {0}
      [] f = "nonce" -> {0}
      [] f = "ct" -> {[Seal(1, "alice@x", "correct horse").ct EXCEPT !.ad = Altered]}
      [] f = "kind" -> {"garbled", "too large"}

Symmetry == Permutations(Process)
=============================================================================
