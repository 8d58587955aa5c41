------------------------------ MODULE MCOutbox ------------------------------
(* Two handler threads, a command line, two texts, a contact and a second  *)
(* one who may turn up with the same address.                              *)
EXTENDS Outbox
MCContact == {[fp |-> "fp1", address |-> "bob@x"]}
MCStranger == {[fp |-> "fp2", address |-> "bob@x"]}
=============================================================================
