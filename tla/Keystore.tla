------------------------------ MODULE Keystore ------------------------------
(***************************************************************************)
(* The keystore file and the processes that make, restore and open it.     *)
(* Every command starts in main, which restores the keystore from the      *)
(* environment if there is none, and then generates an identity or unlocks *)
(* the one on disk.  Several processes share one home.                     *)
(*                                                                         *)
(* Cryptography is symbolic: a ciphertext opens under the key, the nonce   *)
(* and the associated data it was made with, and under no others.          *)
(***************************************************************************)
EXTENDS AtomicFile, Integers, FiniteSets

CONSTANTS
    Address,        \* addresses as they are spelled
    Lower(_),       \* strip().lower()
    Passphrase,     \* what an operator may type
    LongEnough,     \* those that validate_passphrase lets pass
    Odd(_),         \* what damage may leave in a field of the file
    BackupOf,       \* identity and passphrase of the backup, or {}
    (* Bounds for the model checker. *)
    MaxRuns,        \* how many commands are run
    MaxFaults       \* failures, deaths, losses of power and damage

(* Damage is neither the loss of the file nor the tearing that             *)
(* atomic_write_bytes is there to prevent.                                 *)
ASSUME OddAssumption == Odd("kind") \cap {"absent", "torn"} = {}
(* A ciphertext that was altered opens under no associated data. *)
Altered == [altered |-> TRUE]
ASSUME OddCiphertextAssumption == \A ct \in Odd("ct") : ct.ad = Altered
ASSUME BoundsAssumption == {MaxRuns, MaxFaults} \subseteq Nat

VARIABLES
    backup,    \* QUMAIL_KEYSTORE_B64, or Absent
    readable,  \* the file can be read by other users
    job,       \* what each process is doing
    sealed,    \* history: every file content that was encrypted, and for whom
    (* history, since a command last began *)
    loaded,    \* what each load read and returned
    destroyed, \* contents that a writer replaced or removed
    (* bounds *)
    runs, faults

history == <<sealed, loaded, destroyed>>
vars == <<fileVars, backup, readable, job, history, runs, faults>>

-----------------------------------------------------------------------------
(* The format.  A number in JSON has a form besides its value: 1 and 1.0   *)
(* are equal in Python and are written differently.                        *)
Number(i) == [form |-> "int", is |-> i]
SCRYPT_N == 65536
MAX_SCRYPT_N == 1048576

FieldNames == {"v", "address", "fingerprint", "name", "n", "r", "p", "salt"}
Header(c) == [f \in FieldNames |-> c[f]]

(* json.dumps(header): every field of it. *)
AssociatedDataOfKdf(c) == [f \in {"name", "n", "r", "p", "salt"} |-> c[f]]
AssociatedData(c) == Header(c)

Fingerprint(id, address) == <<id, Lower(address)>>

(* int() takes a float and a decimal text for what they say. *)
Derive(pass, c) ==
    [pass |-> pass, salt |-> c.salt, n |-> c.n.is, r |-> c.r.is, p |-> c.p.is]

PowersOfTwo == {2 ^ k : k \in 0..20}
Derivable(c) ==
    /\ {c.n.form, c.r.form, c.p.form} \subseteq {"int", "float", "text"}
    /\ c.n.is <= MAX_SCRYPT_N /\ c.n.is >= 16384 /\ c.n.is \in PowersOfTwo
    /\ c.r.is \in 1..32 /\ c.p.is \in 1..16

(* save, up to the write: identity `id` is fresh, and so are salt and      *)
(* nonce, which take its number.                                           *)
Seal(id, address, pass) ==
    LET header == [kind |-> "json", v |-> Number(1), address |-> address,
                   fingerprint |-> Fingerprint(id, address), name |-> "scrypt",
                   n |-> Number(SCRYPT_N), r |-> Number(8), p |-> Number(1), salt |-> id]
    IN  [f \in DOMAIN header \cup {"nonce", "ct"} |->
            IF f = "nonce" THEN id
            ELSE IF f = "ct" THEN [key |-> Derive(pass, header), nonce |-> id,
                                   ad |-> AssociatedData(header), id |-> id]
            ELSE header[f]]

Entry(id, address, pass) ==
    [content |-> Seal(id, address, pass), id |-> id, address |-> address, pass |-> pass]

(* load, once the file is read. *)
Refused == [id |-> 0]
Supported(c) ==
    /\ c.kind = "json"
    /\ c.v.form \in {"int", "float"} /\ c.v.is = 1
    /\ c.name = "scrypt"
Decrypts(c, pass) ==
    /\ c.ct.key = Derive(pass, c) /\ c.ct.nonce = c.nonce
    /\ c.ct.ad = AssociatedData(c)
Opened(c, pass) ==
    IF /\ Supported(c) /\ Derivable(c) /\ Decrypts(c, pass)
       /\ c.fingerprint = Fingerprint(c.ct.id, c.address)
    THEN [id |-> c.ct.id, address |-> c.address]
    ELSE Refused

-----------------------------------------------------------------------------
Idle == [at |-> "idle"]
Entries == {e.content : e \in sealed}

Init ==
    /\ InitFile({Absent})
    /\ sealed = {Entry(b.id, b.address, b.pass) : b \in BackupOf}
    /\ backup \in Entries \cup {Absent}
    /\ readable = FALSE
    /\ job = [q \in Process |-> Idle]
    /\ loaded = {} /\ destroyed = {}
    /\ runs = 0 /\ faults = 0

Goes(q, at) == job' = [job EXCEPT ![q].at = at]
Ends(q) == job' = [job EXCEPT ![q] = Idle]
Fresh == 1 + Cardinality(sealed)

(* main: a command begins, and bootstrap_keystore looks for the file.      *)
(* `present` is what was there at that moment.                             *)
Start(q, command, force, pass) ==
    /\ job[q] = Idle /\ runs < MaxRuns /\ runs' = runs + 1
    /\ job' = [job EXCEPT ![q] =
            [at |-> IF backup # Absent /\ file = Absent THEN "restore" ELSE "command",
             command |-> command, force |-> force, pass |-> pass, present |-> file]]
    /\ loaded' = {} /\ destroyed' = {}
    /\ UNCHANGED <<fileVars, backup, readable, sealed, faults>>

Restore(q) ==
    /\ job[q].at = "restore"
    /\ Make(q, backup) /\ Goes(q, "restoring")
    /\ UNCHANGED <<backup, readable, history, runs, faults>>

(* keygen: generate_identity, and save up to the write. *)
ChecksNothing(q) == job[q].pass \in LongEnough
Checks(q) ==
    /\ job[q].pass \in LongEnough
    /\ file = Absent \/ job[q].force
Generate(q, address) ==
    /\ job[q].at = "command" /\ job[q].command = "keygen" /\ Checks(q)
    /\ sealed' = sealed \cup {Entry(Fresh, address, job[q].pass)}
    /\ Make(q, Seal(Fresh, address, job[q].pass)) /\ Goes(q, "saving")
    /\ UNCHANGED <<backup, readable, loaded, destroyed, runs, faults>>
KeygenRefuses(q) ==
    /\ job[q].at = "command" /\ job[q].command = "keygen" /\ ~Checks(q)
    /\ Ends(q)
    /\ UNCHANGED <<fileVars, backup, readable, history, runs, faults>>

(* The steps of atomic_write_bytes, from either writer. *)
WritesOn(q) ==
    /\ WriteOut(q) \/ Sync(q)
    /\ UNCHANGED <<backup, readable, job, history, runs, faults>>

Lost(q, next) ==
    destroyed' = destroyed \cup
        {[content |-> c, by |-> job[q]] : c \in {file} \ {Absent, next}}

Clears(q) ==
    /\ Clear(q) /\ Lost(q, temp[q].data)
    /\ UNCHANGED <<backup, readable, job, sealed, loaded, runs, faults>>
Replaces(q) ==
    /\ Replace(q) /\ Lost(q, temp[q].data)
    /\ readable' = FALSE
    /\ IF job[q].at = "restoring" THEN Goes(q, "command") ELSE Ends(q)
    /\ UNCHANGED <<backup, sealed, loaded, runs, faults>>

(* load: exists, stat and permissions, read. *)
Look(q) ==
    /\ job[q].at = "command" /\ job[q].command = "unlock"
    /\ IF file = Absent THEN Ends(q) ELSE Goes(q, "stat")
    /\ UNCHANGED <<fileVars, backup, readable, history, runs, faults>>
Stat(q) ==
    /\ job[q].at = "stat"
    /\ IF file = Absent \/ (readable /\ ~windows) THEN Ends(q) ELSE Goes(q, "read")
    /\ UNCHANGED <<fileVars, backup, readable, history, runs, faults>>
Read(q) ==
    /\ job[q].at = "read"
    /\ loaded' = loaded \cup
        {[content |-> c, pass |-> job[q].pass, result |-> Opened(c, job[q].pass)] :
            c \in {file} \ {Absent}}
    /\ Ends(q)
    /\ UNCHANGED <<fileVars, backup, readable, sealed, destroyed, runs, faults>>

-----------------------------------------------------------------------------
Fault == faults < MaxFaults /\ faults' = faults + 1

WriteFails(q) ==
    /\ Fault /\ Fail(q) /\ Ends(q)
    /\ UNCHANGED <<backup, readable, history, runs>>
Killed(q) ==
    /\ Fault /\ job[q] # Idle /\ Die(q) /\ Ends(q)
    /\ UNCHANGED <<backup, readable, history, runs>>
PowerFails ==
    /\ Fault /\ PowerLoss
    /\ job' = [q \in Process |-> Idle]
    /\ UNCHANGED <<backup, readable, history, runs>>
Settles ==
    /\ WriteBack /\ survivors # {file}
    /\ UNCHANGED <<backup, readable, job, history, runs, faults>>

(* Something else edits the file, or opens it to other users, while nobody *)
(* is at work on it.                                                       *)
AtRest == \A q \in Process : job[q] = Idle
Damage(f, x) ==
    /\ Fault /\ AtRest /\ file \notin {Absent, Torn} /\ file.kind = "json"
    /\ file' = [file EXCEPT ![f] = x] /\ survivors' = {file'}
    /\ UNCHANGED <<windows, temp, backup, readable, job, history, runs>>
Expose ==
    /\ Fault /\ AtRest /\ file # Absent /\ readable' = TRUE
    /\ UNCHANGED <<fileVars, backup, job, history, runs>>

Fields == FieldNames \cup {"kind", "nonce", "ct"}
Next ==
    \/ \E q \in Process :
        \/ \E pass \in Passphrase :
            \/ Start(q, "unlock", FALSE, pass)
            \/ \E force \in BOOLEAN : Start(q, "keygen", force, pass)
        \/ \E address \in Address : Generate(q, address)
        \/ Restore(q) \/ KeygenRefuses(q)
        \/ WritesOn(q) \/ Clears(q) \/ Replaces(q)
        \/ Look(q) \/ Stat(q) \/ Read(q)
        \/ WriteFails(q) \/ Killed(q)
    \/ PowerFails \/ Settles \/ Expose
    \/ \E f \in Fields : \E x \in Odd(f) \cup {c[f] : c \in Entries} : Damage(f, x)

Spec == Init /\ [][Next]_vars

-----------------------------------------------------------------------------
(* The shape of the state; only a command that is writing has a temporary  *)
(* file.                                                                   *)
TypeOK ==
    /\ FileTypeOK
    /\ DOMAIN job = Process
    /\ \A q \in Process :
        /\ job[q].at \in {"idle", "restore", "restoring", "command", "saving", "stat", "read"}
        /\ Writing(q) <=> job[q].at \in {"restoring", "saving"}
    /\ runs \in 0..MaxRuns /\ faults \in 0..MaxFaults

(* Where a rename replaces the target, the keystore is never out of place: *)
(* once there, it is there at every instant, for every process, until      *)
(* power is lost, whoever writes, fails or dies.  (Where the target is     *)
(* removed first, fsutil.py:83, this is not so.)                           *)
StaysInPlace ==
    [][~windows /\ file # Absent /\ file' = Absent => survivors' = {Absent}]_vars

(* An identity is lost without --force only to a command that ran at the   *)
(* same time: what was on disk when a plain keygen, or a start with a      *)
(* backup in the environment, began is not replaced by it ("losing a       *)
(* private key to a stray `keygen` is unrecoverable", keystore.py:86).     *)
(* Not so where the target is removed first: a keygen that looks in that   *)
(* instant finds nothing.                                                  *)
NoStrayKeygen ==
    \A d \in destroyed : ~windows => d.by.force \/ d.content # d.by.present

(* load gives back the identity and the address that save was given, under *)
(* the passphrase it was given, from the very file that was written; from  *)
(* any other file, and under any other passphrase, nothing ("an attacker   *)
(* cannot swap the address or fingerprint", keystore.py:7).                *)
LoadIsExact ==
    \A l \in loaded :
        /\ \A e \in sealed : l.content = e.content /\ l.pass = e.pass =>
                l.result = [id |-> e.id, address |-> e.address]
        /\ l.result # Refused =>
                \E e \in sealed : l.content = e.content /\ l.pass = e.pass
=============================================================================
