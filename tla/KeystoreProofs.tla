--------------------------- MODULE KeystoreProofs ---------------------------
(***************************************************************************)
(* Proofs about AtomicFile and the Keystore that is built on it, for any   *)
(* processes, addresses and passphrases, any damage, and failures and      *)
(* losses of power in any number.                                          *)
(***************************************************************************)
EXTENDS Keystore, TLAPS

(***************************************************************************)
(* The steps of a write, whatever is written and whoever writes.           *)
(*                                                                         *)
(* A file is never found torn because what a rename puts in its place has  *)
(* been synced: FileInv says so of every temporary file that has passed    *)
(* the fsync.                                                              *)
(***************************************************************************)

(* What may be found at the path. *)
Content(c) == "kind" \in DOMAIN c /\ c.kind # "torn"

PartOK(q) ==
    Writing(q) =>
        /\ DOMAIN temp[q] = {"at", "data", "synced"}
        /\ Content(temp[q].data)
        /\ temp[q].at \in {"synced", "cleared"} => temp[q].synced

FileInv ==
    /\ FileTypeOK
    /\ \A c \in survivors : Content(c)
    /\ DOMAIN temp = Process
    /\ \A q \in Process : PartOK(q)

-----------------------------------------------------------------------------
(* A writer that starts with whole content becomes one that is writing.    *)
LEMMA MakeKeeps ==
    ASSUME FileInv, NEW p \in Process, NEW d, Content(d), Whole(d), Make(p, d)
    PROVE  FileInv' /\ Writing(p)'
<1>1. \A q \in Process : q # p => temp'[q] = temp[q]
  BY DEF Make, FileInv
<1>2. temp'[p] = [at |-> "made", data |-> d, synced |-> FALSE] /\ DOMAIN temp' = Process
  BY DEF Make, FileInv
<1>3. Writing(p)'
  <2>1. temp'[p].at = "made" /\ NoPart.at = "none"
    BY <1>2 DEF NoPart
  <2> QED
    BY <2>1 DEF Writing, NoPart
<1>4. FileTypeOK'
  BY <1>1, <1>2, <1>3 DEF Make, FileInv, FileTypeOK, Writing, NoPart
<1>5. \A q \in Process : PartOK(q)'
  BY <1>1, <1>2 DEF FileInv, PartOK, Writing
<1> QED
  BY <1>2, <1>3, <1>4, <1>5 DEF Make, FileInv

(* A step of a write that goes on. *)
LEMMA WriteKeeps ==
    ASSUME FileInv, NEW p \in Process, WriteOut(p) \/ Sync(p) \/ Clear(p)
    PROVE  FileInv' /\ \A q \in Process : Writing(q)' <=> Writing(q)
<1>1. Writing(p) /\ DOMAIN temp' = Process /\ \A q \in Process : q # p => temp'[q] = temp[q]
  BY DEF WriteOut, Sync, Clear, FileInv, Has, Writing, NoPart
<1>2. /\ DOMAIN temp[p] = {"at", "data", "synced"} /\ Content(temp[p].data)
      /\ Whole(temp[p].data)
  BY <1>1 DEF FileInv, PartOK, FileTypeOK
<1>3. /\ DOMAIN temp'[p] = {"at", "data", "synced"} /\ temp'[p].data = temp[p].data
      /\ temp'[p].at \in {"written", "synced", "cleared"}
      /\ temp'[p].at \in {"synced", "cleared"} => temp'[p].synced
      /\ temp'[p].at = "cleared" => windows
  <2>1. CASE WriteOut(p)
    BY <1>2, <2>1 DEF WriteOut, FileInv
  <2>2. CASE Sync(p)
    BY <1>2, <2>2 DEF Sync, FileInv
  <2>3. CASE Clear(p)
    BY <1>1, <1>2, <2>3 DEF Clear, FileInv, PartOK, Has
  <2> QED
    BY <2>1, <2>2, <2>3
<1>4. Writing(p)'
  BY <1>3 DEF Writing, NoPart
<1>5. \A c \in survivors' : Content(c)
  <2>1. Content(Absent)
    BY DEF Content, Absent
  <2> QED
    BY <2>1 DEF WriteOut, Sync, Clear, FileInv
<1>6. file' \in survivors' /\ windows' = windows
  BY DEF WriteOut, Sync, Clear, FileInv, FileTypeOK
<1>7. FileTypeOK'
  BY <1>1, <1>2, <1>3, <1>6 DEF FileInv, FileTypeOK, Writing
<1>8. \A q \in Process : PartOK(q)'
  BY <1>1, <1>2, <1>3 DEF FileInv, PartOK, Writing
<1> QED
  BY <1>1, <1>4, <1>5, <1>7, <1>8 DEF FileInv, Writing

(* What is renamed into place has been synced, and is whole. *)
LEMMA ReplaceKeeps ==
    ASSUME FileInv, NEW p \in Process, Replace(p)
    PROVE  /\ FileInv' /\ ~Writing(p)'
           /\ \A q \in Process \ {p} : Writing(q)' <=> Writing(q)
           /\ file' # Absent
<1>1. Writing(p)
  BY DEF Replace, Has, Writing, NoPart
<1>2. temp[p].at \in {"synced", "cleared"} /\ temp[p].synced
      /\ Content(temp[p].data) /\ Whole(temp[p].data)
  BY <1>1 DEF Replace, Has, FileInv, PartOK, FileTypeOK
<1>3. /\ temp'[p] = NoPart /\ DOMAIN temp' = Process
      /\ \A q \in Process : q # p => temp'[q] = temp[q]
  BY DEF Replace, FileInv
<1>4. file' = temp[p].data /\ survivors' = survivors \cup {temp[p].data}
      /\ windows' = windows
  BY <1>2 DEF Replace
<1>5. FileTypeOK'
  BY <1>3, <1>4 DEF FileInv, FileTypeOK, Writing
<1>6. \A q \in Process : PartOK(q)'
  BY <1>3 DEF FileInv, PartOK, Writing
<1>7. file' # Absent
  BY <1>2, <1>4 DEF Whole, Absent
<1> QED
  BY <1>2, <1>3, <1>4, <1>5, <1>6, <1>7 DEF FileInv, Writing

(* A write that fails, or the death of a process that may be writing. *)
LEMMA FailureKeeps ==
    ASSUME FileInv, NEW p \in Process, Fail(p) \/ Die(p)
    PROVE  /\ FileInv' /\ ~Writing(p)'
           /\ \A q \in Process \ {p} : Writing(q)' <=> Writing(q)
           /\ file' = file
<1>1. /\ temp'[p] = NoPart /\ DOMAIN temp' = Process
      /\ \A q \in Process : q # p => temp'[q] = temp[q]
      /\ UNCHANGED <<windows, file, survivors>>
  BY DEF Fail, Die, FileInv
<1>2. FileTypeOK'
  BY <1>1 DEF FileInv, FileTypeOK, Writing
<1>3. \A q \in Process : PartOK(q)'
  BY <1>1 DEF FileInv, PartOK, Writing
<1> QED
  BY <1>1, <1>2, <1>3 DEF FileInv, Writing

(* Neither the disk writing back nor a power cut tears a file.             *)
LEMMA SystemKeeps ==
    ASSUME FileInv, WriteBack \/ PowerLoss
    PROVE  FileInv'
<1>1. CASE WriteBack
  BY <1>1 DEF WriteBack, FileInv, FileTypeOK, PartOK, Writing
<1>2. CASE PowerLoss
  <2>1. temp' = [q \in Process |-> NoPart] /\ file' \in survivors
        /\ survivors' = {file'} /\ windows' = windows
    BY <1>2 DEF PowerLoss
  <2> QED
    BY <2>1 DEF FileInv, FileTypeOK, PartOK, Writing
<1> QED
  BY <1>1, <1>2

(* Steps that leave the files alone keep the invariant of the files.       *)
LEMMA FileUnchanged ==
    ASSUME FileInv, UNCHANGED fileVars
    PROVE  FileInv' /\ \A q \in Process : Writing(q)' <=> Writing(q)
  BY DEF FileInv, FileTypeOK, PartOK, Writing, fileVars

(* The invariant says that nothing torn is ever found. *)
LEMMA InvIsNeverTorn == FileInv => NeverTorn
<1>1. ~Content(Torn)
  BY DEF Content, Torn
<1> QED
  BY <1>1 DEF FileInv, FileTypeOK, NeverTorn

-----------------------------------------------------------------------------
(***************************************************************************)
(* The commands that make, restore and open the keystore.                  *)
(*                                                                         *)
(* The invariant adds to FileInv what ties a command to the file: while a  *)
(* command that found a keystore is running, there is one (where a rename  *)
(* replaces the target), so a plain keygen that gets as far as writing     *)
(* began where there was none.                                             *)
(***************************************************************************)
JobFields == {"at", "command", "force", "pass", "present"}
JobOK(q) ==
    /\ job[q] = Idle \/ DOMAIN job[q] = JobFields
    /\ job[q].at = "restore" => backup # Absent

ContentsOK ==
    /\ backup = Absent \/ (Content(backup) /\ Whole(backup))
    /\ \A e \in sealed : "kind" \in DOMAIN e.content /\ e.content.kind = "json"

Found(q) == job[q] # Idle /\ job[q].present # Absent => file # Absent
BeganWithout(q) ==
    /\ job[q].at \in {"restore", "restoring"} => job[q].present = Absent
    /\ job[q].at = "saving" => job[q].force \/ job[q].present = Absent

TInv ==
    /\ FileInv /\ TypeOK /\ ContentsOK
    /\ \A q \in Process : JobOK(q)
IInv ==
    /\ TInv /\ NoStrayKeygen
    /\ ~windows => \A q \in Process : Found(q) /\ BeganWithout(q)

-----------------------------------------------------------------------------
(* What a writer puts together is a keystore, and never looks absent or    *)
(* torn.                                                                   *)
LEMMA EntryIsWhole ==
    ASSUME NEW id, NEW address, NEW pass
    PROVE  /\ "kind" \in DOMAIN Entry(id, address, pass).content
           /\ Entry(id, address, pass).content.kind = "json"
           /\ Entry(id, address, pass).content = Seal(id, address, pass)
<1>1. Entry(id, address, pass).content = Seal(id, address, pass)
  BY DEF Entry
<1>2. "kind" \in DOMAIN Seal(id, address, pass) /\ Seal(id, address, pass).kind = "json"
  BY DEF Seal
<1> QED
  BY <1>1, <1>2

(* What save writes is whole content in the sense of AtomicFile.           *)
LEMMA KeystoresAreWhole ==
    ASSUME NEW c, "kind" \in DOMAIN c, c.kind = "json"
    PROVE  Content(c) /\ Whole(c)
  BY DEF Content, Whole

(* The type invariant holds at first.                                      *)
LEMMA TypeInitial == Init => TInv
<1> SUFFICES ASSUME Init PROVE TInv
  OBVIOUS
<1>1. windows \in BOOLEAN /\ file = Absent /\ survivors = {Absent}
      /\ temp = [q \in Process |-> NoPart]
  BY DEF Init, InitFile
<1>2. Content(Absent) /\ FileTypeOK /\ \A q \in Process : ~Writing(q)
  BY <1>1 DEF Content, Absent, FileTypeOK, Writing
<1>3. FileInv
  BY <1>1, <1>2 DEF FileInv, PartOK
<1>4. \A e \in sealed : e.content.kind = "json" /\ "kind" \in DOMAIN e.content
                        /\ Content(e.content) /\ Whole(e.content)
  BY EntryIsWhole, KeystoresAreWhole DEF Init
<1>5. ContentsOK
  BY <1>4 DEF Init, Entries, ContentsOK
<1>6. \A q \in Process : job[q] = Idle /\ job[q].at = "idle"
  BY DEF Init, Idle
<1>7. TypeOK
  BY <1>2, <1>6, BoundsAssumption DEF Init, TypeOK
<1> QED
  BY <1>3, <1>5, <1>6, <1>7 DEF TInv, JobOK

-----------------------------------------------------------------------------
(* The actions of a process. *)

(* It is kept by the steps that read the files and decide,                 *)
LEMMA StepsOfCommands ==
    ASSUME TInv, NEW q \in Process
    PROVE  /\ \A command, force, pass : Start(q, command, force, pass) => TInv'
           /\ KeygenRefuses(q) \/ Look(q) \/ Stat(q) \/ Read(q) => TInv'
<1> USE DEF TInv
<1>1. \A command, force, pass : Start(q, command, force, pass) => TInv'
  <2> SUFFICES ASSUME NEW command, NEW force, NEW pass, Start(q, command, force, pass)
               PROVE  TInv'
    OBVIOUS
  <2>1. FileInv' /\ FileTypeOK' /\ (\A p \in Process : Writing(p)' <=> Writing(p)) /\ file' = file
        /\ backup' = backup /\ sealed' = sealed
    BY FileUnchanged DEF Start, FileInv, fileVars
  <2>2. /\ DOMAIN job' = Process /\ \A p \in Process : p # q => job'[p] = job[p]
        /\ DOMAIN job'[q] = JobFields /\ job'[q].at \in {"restore", "command"}
        /\ job'[q].at = "restore" => backup # Absent
    BY DEF Start, TypeOK, JobFields
  <2>3. ~Writing(q)
    BY DEF Start, TypeOK, Idle
  <2>4. TypeOK'
    BY <2>1, <2>2, <2>3, BoundsAssumption DEF TypeOK, Start
  <2>5. ContentsOK' /\ \A p \in Process : JobOK(p)'
    BY <2>1, <2>2 DEF ContentsOK, JobOK
  <2> QED
    BY <2>1, <2>4, <2>5
<1>2. ASSUME KeygenRefuses(q) \/ Look(q) \/ Stat(q) \/ Read(q) PROVE TInv'
  <2>1. FileInv' /\ FileTypeOK' /\ (\A p \in Process : Writing(p)' <=> Writing(p))
        /\ backup' = backup /\ sealed' = sealed /\ runs' = runs /\ faults' = faults
    BY <1>2, FileUnchanged DEF KeygenRefuses, Look, Stat, Read, FileInv, fileVars, history
  <2>2. job[q] # Idle /\ DOMAIN job[q] = JobFields /\ ~Writing(q)
    BY <1>2 DEF KeygenRefuses, Look, Stat, Read, TypeOK, JobOK, Idle
  <2>3. /\ DOMAIN job' = Process /\ \A p \in Process : p # q => job'[p] = job[p]
        /\ job'[q] = Idle \/ (DOMAIN job'[q] = JobFields /\ job'[q].at \in {"stat", "read"})
    BY <1>2, <2>2 DEF KeygenRefuses, Look, Stat, Read, TypeOK, Ends, Goes, JobFields
  <2>4. Idle.at = "idle"
    BY DEF Idle
  <2>5. TypeOK'
    BY <2>1, <2>2, <2>3, <2>4 DEF TypeOK
  <2>6. ContentsOK' /\ \A p \in Process : JobOK(p)'
    BY <2>1, <2>3, <2>4 DEF ContentsOK, JobOK
  <2> QED
    BY <2>1, <2>5, <2>6
<1> QED
  BY <1>1, <1>2

(* The two beginnings of a write: what is written is whole. *)
LEMMA StepsOfWriters ==
    ASSUME TInv, NEW q \in Process, NEW address, Restore(q) \/ Generate(q, address)
    PROVE  TInv'
<1> USE DEF TInv
<1>1. job[q] # Idle /\ DOMAIN job[q] = JobFields
  BY DEF Restore, Generate, Idle, JobOK
<1>2. PICK d : Make(q, d) /\ Content(d) /\ Whole(d)
  <2>1. CASE Restore(q)
    BY <2>1 DEF Restore, ContentsOK, JobOK
  <2>2. CASE Generate(q, address)
    BY <2>2, EntryIsWhole, KeystoresAreWhole DEF Generate
  <2> QED
    BY <2>1, <2>2
<1>3. FileInv' /\ Writing(q)' /\ \A p \in Process : p # q => (Writing(p)' <=> Writing(p))
  <2>1. FileInv' /\ Writing(q)'
    BY <1>2, MakeKeeps
  <2>2. \A p \in Process : p # q => temp'[p] = temp[p]
    BY <1>2 DEF Make, FileInv
  <2> QED
    BY <2>1, <2>2 DEF Writing
<1>4. /\ DOMAIN job' = Process /\ \A p \in Process : p # q => job'[p] = job[p]
      /\ DOMAIN job'[q] = JobFields /\ job'[q].at \in {"restoring", "saving"}
  BY <1>1 DEF Restore, Generate, Goes, TypeOK, JobFields
<1>5. TypeOK'
  BY <1>3, <1>4 DEF TypeOK, FileInv, Restore, Generate
<1>6. backup' = backup /\ \A e \in sealed' : "kind" \in DOMAIN e.content /\ e.content.kind = "json"
  <2>1. CASE Restore(q)
    BY <2>1 DEF Restore, history, ContentsOK
  <2>2. CASE Generate(q, address)
    BY <2>2, EntryIsWhole DEF Generate, ContentsOK
  <2> QED
    BY <2>1, <2>2
<1>7. ContentsOK' /\ \A p \in Process : JobOK(p)'
  BY <1>4, <1>6 DEF ContentsOK, JobOK
<1> QED
  BY <1>3, <1>5, <1>7

(* A write that goes on, ends, fails or dies with its process. *)
LEMMA StepsOfWrites ==
    ASSUME TInv, NEW q \in Process,
           WritesOn(q) \/ Clears(q) \/ Replaces(q) \/ WriteFails(q) \/ Killed(q)
    PROVE  TInv'
<1> USE DEF TInv
<1>0. Idle.at = "idle"
  BY DEF Idle
<1>1. job[q] # Idle /\ DOMAIN job[q] = JobFields
  <2>1. CASE Killed(q)
    BY <2>1 DEF Killed, JobOK
  <2>2. CASE ~Killed(q)
    <3>1. Writing(q)
      BY <2>2 DEF WritesOn, Clears, Replaces, WriteFails, WriteOut, Sync, Clear, Replace, Fail,
                  Has, Writing, NoPart
    <3> QED
      BY <1>0, <3>1 DEF TypeOK, JobOK
  <2> QED
    BY <2>1, <2>2
<1>2. backup' = backup /\ sealed' = sealed /\ runs' = runs /\ faults' \in 0..MaxFaults
  BY BoundsAssumption DEF WritesOn, Clears, Replaces, WriteFails, Killed, history, Fault, TypeOK
<1>3. ContentsOK'
  BY <1>2 DEF ContentsOK
<1>4. CASE WritesOn(q) \/ Clears(q)
  <2>1. FileInv' /\ \A p \in Process : Writing(p)' <=> Writing(p)
    BY <1>4, WriteKeeps DEF WritesOn, Clears
  <2>2. job' = job
    BY <1>4 DEF WritesOn, Clears
  <2> QED
    BY <1>2, <1>3, <2>1, <2>2 DEF TypeOK, JobOK, FileInv
<1>5. CASE Replaces(q) \/ WriteFails(q) \/ Killed(q)
  <2>1. FileInv' /\ ~Writing(q)' /\ \A p \in Process \ {q} : Writing(p)' <=> Writing(p)
    BY <1>5, ReplaceKeeps, FailureKeeps DEF Replaces, WriteFails, Killed
  <2>2. /\ DOMAIN job' = Process /\ \A p \in Process : p # q => job'[p] = job[p]
        /\ job'[q] = Idle \/ (DOMAIN job'[q] = JobFields /\ job'[q].at = "command")
    BY <1>1, <1>5 DEF Replaces, WriteFails, Killed, Goes, Ends, TypeOK, JobFields
  <2>3. TypeOK'
    BY <1>0, <1>2, <2>1, <2>2 DEF TypeOK, FileInv
  <2>4. \A p \in Process : JobOK(p)'
    BY <1>0, <1>2, <2>2 DEF JobOK
  <2> QED
    BY <1>3, <2>1, <2>3, <2>4
<1> QED
  BY <1>4, <1>5

(* Losses of power, buffers that reach the disk, and what others do to the *)
(* file.                                                                   *)
LEMMA StepsOfTheSystem ==
    ASSUME TInv, PowerFails \/ Settles \/ Expose
    PROVE  TInv'
<1> USE DEF TInv
<1>0. Idle.at = "idle"
  BY DEF Idle
<1>1. backup' = backup /\ sealed' = sealed /\ runs' = runs /\ faults' \in 0..MaxFaults
  BY BoundsAssumption DEF PowerFails, Settles, Expose, history, Fault, TypeOK
<1>2. ContentsOK'
  BY <1>1 DEF ContentsOK
<1>3. CASE PowerFails
  <2>1. FileInv' /\ \A p \in Process : ~Writing(p)'
    BY <1>3, SystemKeeps DEF PowerFails, PowerLoss, Writing
  <2>2. job' = [p \in Process |-> Idle]
    BY <1>3 DEF PowerFails
  <2> QED
    BY <1>0, <1>1, <1>2, <2>1, <2>2 DEF TypeOK, JobOK, FileInv
<1>4. CASE Settles \/ Expose
  <2>1. FileInv' /\ \A p \in Process : Writing(p)' <=> Writing(p)
    <3>1. CASE Settles
      BY <3>1, SystemKeeps DEF Settles, WriteBack, Writing
    <3>2. CASE Expose
      BY <3>2, FileUnchanged DEF Expose
    <3> QED
      BY <1>4, <3>1, <3>2
  <2>2. job' = job
    BY <1>4 DEF Settles, Expose
  <2> QED
    BY <1>1, <1>2, <2>1, <2>2 DEF TypeOK, JobOK, FileInv
<1> QED
  BY <1>3, <1>4

(* Damage leaves something that is neither absent nor torn. *)
LEMMA StepOfDamage ==
    ASSUME TInv, NEW f \in Fields, NEW x \in Odd(f) \cup {c[f] : c \in Entries}, Damage(f, x)
    PROVE  TInv' /\ file' # Absent
<1> USE DEF TInv
<1>1. file \in survivors /\ Content(file) /\ file.kind = "json"
  BY DEF Damage, FileInv, FileTypeOK
<1>2. f = "kind" => x \notin {"absent", "torn"}
  <2>1. \A c \in Entries : c.kind = "json"
    BY DEF Entries, ContentsOK
  <2> QED
    BY <2>1, OddAssumption
<1>3. "kind" \in DOMAIN file' /\ file'.kind \notin {"absent", "torn"}
  <2>1. DOMAIN file' = DOMAIN file /\ "kind" \in DOMAIN file
    BY <1>1 DEF Damage, Content
  <2>2. file' = [y \in DOMAIN file |-> IF y = f THEN x ELSE file[y]]
    BY DEF Damage
  <2>3. file'["kind"] = IF "kind" = f THEN x ELSE file["kind"]
    BY <2>1, <2>2
  <2> QED
    BY <1>1, <1>2, <2>1, <2>3
<1>4. Content(file') /\ file' # Absent
  BY <1>3 DEF Content, Absent
<1>5. survivors' = {file'} /\ UNCHANGED <<windows, temp, job, backup, sealed, runs>>
      /\ faults' \in 0..MaxFaults
  BY BoundsAssumption DEF Damage, Fault, TypeOK, history
<1>6. FileInv'
  BY <1>4, <1>5 DEF FileInv, FileTypeOK, PartOK, Writing
<1>7. TypeOK'
  BY <1>5, <1>6 DEF TypeOK, FileInv, Writing
<1> QED
  BY <1>4, <1>5, <1>6, <1>7 DEF ContentsOK, JobOK

(* and so by every step.                                                   *)
LEMMA TypeStep == TInv /\ [Next]_vars => TInv'
<1> SUFFICES ASSUME TInv, [Next]_vars PROVE TInv'
  OBVIOUS
<1>1. CASE UNCHANGED vars
  BY <1>1, FileUnchanged DEF vars, TInv, TypeOK, ContentsOK, JobOK, FileInv, history
<1>2. ASSUME NEW q \in Process,
             \/ \E pass \in Passphrase :
                \/ Start(q, "unlock", FALSE, pass)
                \/ \E force \in BOOLEAN : Start(q, "keygen", force, pass)
             \/ \E address \in Address : Generate(q, address)
             \/ Restore(q) \/ KeygenRefuses(q)
             \/ WritesOn(q) \/ Clears(q) \/ Replaces(q)
             \/ Look(q) \/ Stat(q) \/ Read(q)
             \/ WriteFails(q) \/ Killed(q)
      PROVE  TInv'
  BY <1>2, StepsOfCommands, StepsOfWriters, StepsOfWrites
<1>3. CASE PowerFails \/ Settles \/ Expose
  BY <1>3, StepsOfTheSystem
<1>4. CASE \E f \in Fields : \E x \in Odd(f) \cup {c[f] : c \in Entries} : Damage(f, x)
  BY <1>4, StepOfDamage
<1> QED
  BY <1>1, <1>2, <1>3, <1>4 DEF Next

(* Type correctness; and only a command that is writing the keystore has a *)
(* temporary file (atomic_write_bytes removes it whatever goes wrong).     *)
THEOREM TypeCorrect == Spec => []TypeOK
<1>1. TInv => TypeOK
  BY DEF TInv
<1> QED
  BY <1>1, TypeInitial, TypeStep, PTL DEF Spec

(* "A crash mid-write must never leave a half-written keystore"            *)
(* (fsutil.py:4): for any number of processes, commands, failures, deaths  *)
(* and losses of power, no reader finds a file that was written in part.   *)
THEOREM KeystoreNeverTorn == Spec => []NeverTorn
<1>1. TInv => NeverTorn
  BY InvIsNeverTorn DEF TInv
<1> QED
  BY <1>1, TypeInitial, TypeStep, PTL DEF Spec

-----------------------------------------------------------------------------
(* The keystore in its place, and stray keygens. *)

(* Where a rename replaces the target, only a loss of power takes away a   *)
(* keystore that is there.                                                 *)
LEMMA OnlyPowerLossRemoves ==
    ASSUME TInv, [Next]_vars, ~windows, file # Absent, ~PowerFails
    PROVE  file' # Absent
<1>1. CASE UNCHANGED fileVars
  BY <1>1 DEF fileVars
<1>2. CASE \E q \in Process : WriteFails(q) \/ Killed(q)
  BY <1>2, FailureKeeps DEF WriteFails, Killed, TInv
<1>3. CASE \E q \in Process : WritesOn(q) \/ Clears(q)
  BY <1>3 DEF WritesOn, Clears, WriteOut, Sync, Clear
<1>4. CASE \E q \in Process : Replaces(q)
  BY <1>4, ReplaceKeeps DEF Replaces, TInv
<1>5. CASE \E q \in Process : Restore(q) \/ \E address \in Address : Generate(q, address)
  BY <1>5 DEF Restore, Generate, Make
<1>6. CASE Settles
  BY <1>6 DEF Settles, WriteBack
<1>7. CASE \E f \in Fields : \E x \in Odd(f) \cup {c[f] : c \in Entries} : Damage(f, x)
  BY <1>7, StepOfDamage
<1>8. CASE \/ Expose \/ UNCHANGED vars
           \/ \E q \in Process : KeygenRefuses(q) \/ Look(q) \/ Stat(q) \/ Read(q)
           \/ \E q \in Process, pass \in Passphrase, force \in BOOLEAN :
                Start(q, "unlock", FALSE, pass) \/ Start(q, "keygen", force, pass)
  BY <1>1, <1>8 DEF Expose, vars, KeygenRefuses, Look, Stat, Read, Start
<1>9. \/ UNCHANGED vars \/ Expose \/ Settles
      \/ \E q \in Process :
            \/ WriteFails(q) \/ Killed(q) \/ WritesOn(q) \/ Clears(q) \/ Replaces(q)
            \/ Restore(q) \/ (\E address \in Address : Generate(q, address))
            \/ KeygenRefuses(q) \/ Look(q) \/ Stat(q) \/ Read(q)
            \/ \E pass \in Passphrase, force \in BOOLEAN :
                Start(q, "unlock", FALSE, pass) \/ Start(q, "keygen", force, pass)
      \/ \E f \in Fields : \E x \in Odd(f) \cup {c[f] : c \in Entries} : Damage(f, x)
  BY DEF Next
<1> QED
  BY <1>2, <1>3, <1>4, <1>5, <1>6, <1>7, <1>8, <1>9

(* Once there, the keystore is there at every instant for every process,   *)
(* whoever writes, fails or dies, where os.replace replaces the target.    *)
THEOREM KeystoreStaysInPlace == Spec => StaysInPlace
<1>1. TInv /\ [Next]_vars =>
        [~windows /\ file # Absent /\ file' = Absent => survivors' = {Absent}]_vars
  <2> SUFFICES ASSUME TInv, [Next]_vars, ~windows, file # Absent, file' = Absent
               PROVE  survivors' = {Absent}
    OBVIOUS
  <2>1. PowerFails
    BY OnlyPowerLossRemoves
  <2> QED
    BY <2>1 DEF PowerFails, PowerLoss
<1> QED
  BY <1>1, TypeInitial, TypeStep, PTL DEF Spec, StaysInPlace

(* The invariant of keygen holds at first,                                 *)
LEMMA StrayInitial == Init => IInv
<1> SUFFICES ASSUME Init PROVE IInv
  OBVIOUS
<1>1. \A q \in Process : job[q] = Idle /\ job[q].at = "idle"
  BY DEF Init, Idle
<1> QED
  BY <1>1, TypeInitial DEF Init, IInv, NoStrayKeygen, Found, BeganWithout

(* A step that leaves every command at the same point, or ends it, and     *)
(* records no loss.                                                        *)
LEMMA StrayKeeps ==
    ASSUME IInv, ~windows, NEW p \in Process, file # Absent => file' # Absent,
           \/ job'[p] = job[p] \/ job'[p] = Idle
           \/ /\ job'[p].at \in {"command", "stat", "read"}
              /\ job'[p].present = job[p].present /\ job[p] # Idle
    PROVE  Found(p)' /\ BeganWithout(p)'
<1>1. Idle.at = "idle"
  BY DEF Idle
<1> QED
  BY <1>1 DEF IInv, Found, BeganWithout

(* and every step keeps it: only keygen itself gets past its own check.    *)
LEMMA StrayStep == IInv /\ [Next]_vars => IInv'
<1> SUFFICES ASSUME IInv, [Next]_vars PROVE IInv'
  OBVIOUS
<1> USE DEF IInv
<1>0. TInv' /\ DOMAIN job = Process /\ Idle.at = "idle"
  BY TypeStep DEF TInv, TypeOK, Idle
<1>1. windows' = windows
  BY DEF Next, vars, fileVars, Start, Restore, Generate, KeygenRefuses, WritesOn, Clears,
         Replaces, Look, Stat, Read, WriteFails, Killed, PowerFails, Settles, Expose, Damage,
         Make, WriteOut, Sync, Clear, Replace, Fail, Die, WriteBack, PowerLoss
<1>2. SUFFICES ASSUME ~windows
               PROVE  NoStrayKeygen' /\ \A p \in Process : Found(p)' /\ BeganWithout(p)'
  BY <1>0, <1>1 DEF NoStrayKeygen
<1>3. ASSUME NEW q \in Process, NEW command, NEW force, NEW pass, Start(q, command, force, pass)
      PROVE  NoStrayKeygen' /\ \A p \in Process : Found(p)' /\ BeganWithout(p)'
  <2>1. destroyed' = {} /\ file' = file
    BY <1>3 DEF Start, fileVars
  <2>2. /\ job'[q].present = file /\ job'[q].at \in {"restore", "command"}
        /\ job'[q].at = "restore" => file = Absent
        /\ \A p \in Process : p # q => job'[p] = job[p]
    BY <1>0, <1>3 DEF Start
  <2>3. Found(q)' /\ BeganWithout(q)'
    BY <2>1, <2>2 DEF Found, BeganWithout
  <2>4. \A p \in Process : p # q => Found(p)' /\ BeganWithout(p)'
    BY <1>2, <2>1, <2>2, StrayKeeps
  <2> QED
    BY <2>1, <2>3, <2>4 DEF NoStrayKeygen
<1>4. ASSUME NEW q \in Process, NEW address, Restore(q) \/ Generate(q, address)
      PROVE  NoStrayKeygen' /\ \A p \in Process : Found(p)' /\ BeganWithout(p)'
  <2>1. destroyed' = destroyed /\ file' = file
    BY <1>4 DEF Restore, Generate, Make, history
  <2>2. /\ job[q] # Idle /\ job[q].at \in {"restore", "command"}
        /\ DOMAIN job[q] = JobFields
    BY <1>0, <1>4 DEF Restore, Generate, TInv, JobOK
  <2>3. /\ job'[q].present = job[q].present /\ job'[q].force = job[q].force
        /\ job'[q].at \in {"restoring", "saving"}
        /\ job'[q].at = "restoring" => job[q].at = "restore"
        /\ job'[q].at = "saving" => file = Absent \/ job[q].force
        /\ \A p \in Process : p # q => job'[p] = job[p]
    <3>1. CASE Restore(q)
      BY <1>0, <2>2, <3>1 DEF Restore, Goes, JobFields
    <3>2. CASE Generate(q, address)
      BY <1>0, <2>2, <3>2 DEF Generate, Goes, Checks, JobFields
    <3> QED
      BY <1>4, <3>1, <3>2
  <2>4. Found(q) /\ BeganWithout(q)
    BY <1>2
  <2>5. Found(q)' /\ BeganWithout(q)'
    BY <2>1, <2>2, <2>3, <2>4 DEF Found, BeganWithout
  <2>6. \A p \in Process : p # q => Found(p)' /\ BeganWithout(p)'
    BY <1>2, <2>1, <2>3, StrayKeeps
  <2> QED
    BY <1>1, <2>1, <2>5, <2>6 DEF NoStrayKeygen
<1>5. ASSUME NEW q \in Process, Replaces(q)
      PROVE  NoStrayKeygen' /\ \A p \in Process : Found(p)' /\ BeganWithout(p)'
  <2>1. Writing(q) /\ file' # Absent
    <3>1. Replace(q)
      BY <1>5 DEF Replaces
    <3>2. NoPart.at = "none" /\ temp[q].at \in {"synced", "cleared"}
      BY <3>1 DEF Replace, Has, NoPart
    <3> QED
      BY <3>1, <3>2, ReplaceKeeps DEF Writing, TInv
  <2>2. job[q].at \in {"restoring", "saving"} /\ job[q] # Idle /\ DOMAIN job[q] = JobFields
    BY <1>0, <2>1 DEF TInv, TypeOK, JobOK
  <2>3. job[q].force \/ job[q].present = Absent
    BY <1>2, <2>2 DEF BeganWithout
  <2>4. \A d \in destroyed' \ destroyed : d.content # Absent /\ d.by = job[q]
    BY <1>5 DEF Replaces, Lost
  <2>5. NoStrayKeygen'
    BY <1>1, <2>3, <2>4 DEF NoStrayKeygen
  <2>6. /\ \A p \in Process : p # q => job'[p] = job[p]
        /\ job'[q] = Idle \/ (job'[q].at = "command" /\ job'[q].present = job[q].present)
    BY <1>0, <1>5, <2>2 DEF Replaces, Goes, Ends, JobFields
  <2>7. \A p \in Process : Found(p)' /\ BeganWithout(p)'
    BY <1>2, <2>1, <2>2, <2>6, StrayKeeps
  <2> QED
    BY <2>5, <2>7
<1>6. ASSUME \/ UNCHANGED vars \/ PowerFails \/ Settles \/ Expose
             \/ \E q \in Process : \/ WritesOn(q) \/ Clears(q) \/ WriteFails(q) \/ Killed(q)
                                   \/ KeygenRefuses(q) \/ Look(q) \/ Stat(q) \/ Read(q)
             \/ \E f \in Fields : \E x \in Odd(f) \cup {c[f] : c \in Entries} : Damage(f, x)
      PROVE  NoStrayKeygen' /\ \A p \in Process : Found(p)' /\ BeganWithout(p)'
  <2>1. destroyed' = destroyed
    BY <1>2, <1>6 DEF vars, history, PowerFails, Settles, Expose, WritesOn, Clears, Clear,
         WriteFails, Killed, KeygenRefuses, Look, Stat, Read, Damage
  <2>2. CASE PowerFails
    <3>1. \A p \in Process : job'[p] = Idle
      BY <2>2 DEF PowerFails
    <3> QED
      BY <1>0, <1>1, <2>1, <3>1 DEF NoStrayKeygen, Found, BeganWithout
  <2>3. CASE ~PowerFails
    <3>1. file # Absent => file' # Absent
      BY <1>2, <2>3, OnlyPowerLossRemoves
    <3>2. ASSUME NEW p \in Process
          PROVE  \/ job'[p] = job[p] \/ job'[p] = Idle
                 \/ /\ job'[p].at \in {"command", "stat", "read"}
                    /\ job'[p].present = job[p].present /\ job[p] # Idle
      <4>1. CASE UNCHANGED job
        BY <4>1
      <4>2. ASSUME NEW q \in Process,
                   WriteFails(q) \/ Killed(q) \/ KeygenRefuses(q) \/ Look(q) \/ Stat(q) \/ Read(q)
            PROVE  \/ job'[p] = job[p] \/ job'[p] = Idle
                   \/ /\ job'[p].at \in {"command", "stat", "read"}
                      /\ job'[p].present = job[p].present /\ job[p] # Idle
        <5>1. CASE p # q
          BY <1>0, <4>2, <5>1 DEF WriteFails, Killed, KeygenRefuses, Look, Stat, Read, Ends, Goes
        <5>2. CASE p = q /\ (Look(q) \/ Stat(q))
          <6>1. job[q] # Idle /\ DOMAIN job[q] = JobFields
            BY <1>0, <5>2 DEF Look, Stat, TInv, JobOK
          <6> QED
            BY <1>0, <5>2, <6>1 DEF Look, Stat, Ends, Goes, JobFields
        <5>3. CASE p = q /\ ~(Look(q) \/ Stat(q))
          BY <1>0, <4>2, <5>3 DEF WriteFails, Killed, KeygenRefuses, Read, Ends
        <5> QED
          BY <5>1, <5>2, <5>3
      <4>3. CASE \/ UNCHANGED vars \/ Settles \/ Expose
                 \/ \E q \in Process : WritesOn(q) \/ Clears(q)
                 \/ \E f \in Fields : \E x \in Odd(f) \cup {c[f] : c \in Entries} : Damage(f, x)
        BY <4>1, <4>3 DEF vars, Settles, Expose, WritesOn, Clears, Damage
      <4> QED
        BY <1>6, <2>3, <4>2, <4>3
    <3>3. \A p \in Process : Found(p)' /\ BeganWithout(p)'
      BY <1>2, <3>1, <3>2, StrayKeeps
    <3> QED
      BY <1>1, <2>1, <3>3 DEF NoStrayKeygen
  <2> QED
    BY <2>2, <2>3
<1> QED
  BY <1>3, <1>4, <1>5, <1>6 DEF Next

(* "Losing a private key to a stray `keygen` is unrecoverable"             *)
(* (keystore.py:86): where a rename replaces the target, a keygen without  *)
(* --force, or a start with a backup in the environment, never replaces a  *)
(* keystore that was there when it began, for any number of processes and  *)
(* any interleaving of their steps.                                        *)
THEOREM KeygenNeverStrays == Spec => []NoStrayKeygen
<1>1. IInv => NoStrayKeygen
  BY DEF IInv
<1> QED
  BY <1>1, StrayInitial, StrayStep, PTL DEF Spec

-----------------------------------------------------------------------------
(* What load returns.                                                      *)
(*                                                                         *)
(* Whatever is edited into the file, its ciphertext is one that save made, *)
(* or an altered one that opens under nothing; and a ciphertext that save  *)
(* made opens in no file but its own, because the associated data names    *)
(* every other field that load looks at.                                   *)

Ciphertexts == {e.content.ct : e \in sealed} \cup Odd("ct")
Genuine(c) ==
    c.kind = "json" => c = [f \in Fields |-> c[f]] /\ c.ct \in Ciphertexts

(* Everything that is, or may come to be, the content of the file. *)
Contents ==
    survivors \cup {backup, Absent} \cup
        {temp[q].data : q \in {p \in Process : Writing(p)}}

SealedOK == \A e \in sealed : e = Entry(e.id, e.address, e.pass)
ReadOK(l) == Genuine(l.content) /\ l.result = Opened(l.content, l.pass)
XInv ==
    /\ TInv /\ SealedOK
    /\ \A c \in Contents : Genuine(c)
    /\ \A l \in loaded : ReadOK(l)

(* The fields of what save writes. *)
LEMMA FieldsOfSeal ==
    ASSUME NEW id, NEW address, NEW pass
    PROVE  LET c == Seal(id, address, pass) IN
           /\ c = [f \in Fields |-> c[f]]
           /\ c.kind = "json" /\ c.v = Number(1) /\ c.address = address
           /\ c.fingerprint = Fingerprint(id, address) /\ c.name = "scrypt"
           /\ c.n = Number(SCRYPT_N) /\ c.r = Number(8) /\ c.p = Number(1)
           /\ c.salt = id /\ c.nonce = id
<1>1. DOMAIN Seal(id, address, pass) = Fields
  BY DEF Seal, Fields, FieldNames
<1> QED
  BY <1>1 DEF Seal, Fields, FieldNames

(* The ciphertext opens under the passphrase it was made with, in a file   *)
(* with the header it was made for.                                        *)
LEMMA CiphertextOfSeal ==
    ASSUME NEW id, NEW address, NEW pass
    PROVE  LET c == Seal(id, address, pass) IN
           /\ c.ct.key = Derive(pass, c) /\ c.ct.nonce = id
           /\ c.ct.ad = AssociatedData(c) /\ c.ct.id = id
<1> DEFINE header == [kind |-> "json", v |-> Number(1), address |-> address,
                      fingerprint |-> Fingerprint(id, address), name |-> "scrypt",
                      n |-> Number(SCRYPT_N), r |-> Number(8), p |-> Number(1), salt |-> id]
           c == Seal(id, address, pass)
<1>1. c.ct = [key |-> Derive(pass, header), nonce |-> id,
              ad |-> AssociatedData(header), id |-> id]
  BY DEF Seal
<1>2. \A f \in FieldNames : c[f] = header[f]
  BY DEF Seal, FieldNames
<1>3. Header(c) = Header(header)
  BY <1>2 DEF Header
<1>4. Derive(pass, c) = Derive(pass, header)
  BY <1>2 DEF Derive, FieldNames
<1> QED
  BY <1>1, <1>3, <1>4 DEF AssociatedData

(* load undoes save: the file that was written gives back the identity and *)
(* the address, under the passphrase it was sealed with.                   *)
LEMMA OpensWhatWasSealed ==
    ASSUME NEW id, NEW address, NEW pass
    PROVE  Opened(Seal(id, address, pass), pass) = [id |-> id, address |-> address]
<1> DEFINE c == Seal(id, address, pass)
<1>1. Supported(c)
  BY FieldsOfSeal DEF Supported, Number
<1>2. Derivable(c)
  <2>1. 65536 \in PowersOfTwo
    BY DEF PowersOfTwo
  <2>2. c.n = [form |-> "int", is |-> 65536] /\ c.r = [form |-> "int", is |-> 8]
        /\ c.p = [form |-> "int", is |-> 1]
    BY FieldsOfSeal DEF Number, SCRYPT_N
  <2> QED
    BY <2>1, <2>2 DEF Derivable, MAX_SCRYPT_N
<1>3. Decrypts(c, pass)
  <2>1. c.nonce = id
    BY FieldsOfSeal
  <2> QED
    BY <2>1, CiphertextOfSeal DEF Decrypts
<1>4. c.ct.id = id /\ c.address = address /\ c.fingerprint = Fingerprint(id, address)
  <2>1. c.ct.id = id
    BY CiphertextOfSeal
  <2> QED
    BY <2>1, FieldsOfSeal
<1> QED
  BY <1>1, <1>2, <1>3, <1>4 DEF Opened

(* A ciphertext that save made opens in no other file, and under no other  *)
(* passphrase.                                                             *)
LEMMA OpensNowhereElse ==
    ASSUME NEW c, NEW p, NEW id, NEW address, NEW pass,
           c = [f \in Fields |-> c[f]], c.ct = Seal(id, address, pass).ct,
           Opened(c, p) # Refused
    PROVE  c = Seal(id, address, pass) /\ p = pass
<1> DEFINE s == Seal(id, address, pass)
<1>1. c.kind = "json" /\ Decrypts(c, p)
  BY DEF Opened, Supported
<1>2. s.ct.key = Derive(pass, s) /\ s.ct.nonce = id /\ s.ct.ad = Header(s)
  BY CiphertextOfSeal DEF AssociatedData
<1>3. Derive(pass, s) = Derive(p, c) /\ c.nonce = id /\ Header(s) = Header(c)
  BY <1>1, <1>2 DEF Decrypts, AssociatedData
<1>4. p = pass
  <2>1. Derive(pass, s).pass = pass /\ Derive(p, c).pass = p
    BY DEF Derive
  <2> QED
    BY <1>3, <2>1
<1>5. \A f \in FieldNames : c[f] = s[f]
  <2>1. \A f \in FieldNames : Header(s)[f] = s[f] /\ Header(c)[f] = c[f]
    BY DEF Header
  <2> QED
    BY <1>3, <2>1
<1>6. c["kind"] = s["kind"] /\ c["nonce"] = s["nonce"] /\ c["ct"] = s["ct"]
  BY <1>1, <1>3, FieldsOfSeal
<1>7. \A f \in Fields : c[f] = s[f]
  BY <1>5, <1>6 DEF Fields
<1>8. s = [f \in Fields |-> s[f]]
  BY FieldsOfSeal
<1>9. [f \in Fields |-> c[f]] = [f \in Fields |-> s[f]]
  BY <1>7
<1> QED
  BY <1>4, <1>8, <1>9

(* An altered ciphertext opens in no file. *)
LEMMA AlteredNeverOpens ==
    ASSUME NEW c, NEW p, c.ct \in Odd("ct")
    PROVE  Opened(c, p) = Refused
<1>1. c.ct.ad = Altered
  BY OddCiphertextAssumption
<1>2. DOMAIN Altered = {"altered"} /\ DOMAIN Header(c) = FieldNames
  BY DEF Altered, Header
<1>3. "altered" \notin FieldNames
  BY DEF FieldNames
<1>4. ~Decrypts(c, p)
  BY <1>1, <1>2, <1>3 DEF Decrypts, AssociatedData
<1> QED
  BY <1>4 DEF Opened

(* So the invariant says what load may return.                             *)
LEMMA InvIsExact == XInv => LoadIsExact
<1> SUFFICES ASSUME XInv, NEW l \in loaded
             PROVE  /\ \A e \in sealed : l.content = e.content /\ l.pass = e.pass =>
                            l.result = [id |-> e.id, address |-> e.address]
                    /\ l.result # Refused =>
                            \E e \in sealed : l.content = e.content /\ l.pass = e.pass
  BY DEF LoadIsExact
<1>1. l.result = Opened(l.content, l.pass) /\ Genuine(l.content)
  BY DEF XInv, ReadOK
<1>2. \A e \in sealed : e.content = Seal(e.id, e.address, e.pass)
  <2> SUFFICES ASSUME NEW e \in sealed PROVE e.content = Seal(e.id, e.address, e.pass)
    OBVIOUS
  <2>1. e = Entry(e.id, e.address, e.pass)
    BY DEF XInv, SealedOK
  <2>2. Entry(e.id, e.address, e.pass).content = Seal(e.id, e.address, e.pass)
    BY EntryIsWhole
  <2> QED
    BY <2>1, <2>2
<1>3. ASSUME NEW e \in sealed, l.content = e.content, l.pass = e.pass
      PROVE  l.result = [id |-> e.id, address |-> e.address]
  BY <1>1, <1>2, <1>3, OpensWhatWasSealed
<1>4. ASSUME l.result # Refused
      PROVE  \E e \in sealed : l.content = e.content /\ l.pass = e.pass
  <2>1. l.content.kind = "json"
    BY <1>1, <1>4 DEF Opened, Supported
  <2>2. l.content = [f \in Fields |-> l.content[f]] /\ l.content.ct \in Ciphertexts
    BY <1>1, <2>1 DEF Genuine
  <2>3. l.content.ct \notin Odd("ct")
    BY <1>1, <1>4, AlteredNeverOpens
  <2>4. PICK e \in sealed : l.content.ct = e.content.ct
    BY <2>2, <2>3 DEF Ciphertexts
  <2>5. l.content.ct = Seal(e.id, e.address, e.pass).ct
    BY <1>2, <2>4
  <2>6. l.content = Seal(e.id, e.address, e.pass) /\ l.pass = e.pass
    BY <1>1, <1>4, <2>2, <2>5, OpensNowhereElse
  <2> QED
    BY <1>2, <2>6
<1> QED
  BY <1>3, <1>4

(* The invariant holds at first,                                           *)
LEMMA ExactInitial == Init => XInv
<1> SUFFICES ASSUME Init PROVE XInv
  OBVIOUS
<1>1. TInv /\ loaded = {} /\ survivors = {Absent} /\ \A q \in Process : ~Writing(q)
  BY TypeInitial DEF Init, InitFile, Writing
<1>2. SealedOK
  <2> SUFFICES ASSUME NEW b \in BackupOf
               PROVE  LET e == Entry(b.id, b.address, b.pass)
                      IN  e = Entry(e.id, e.address, e.pass)
    BY DEF Init, SealedOK
  <2> QED
    BY DEF Entry
<1>3. Genuine(Absent)
  BY DEF Genuine, Absent
<1>4. \A e \in sealed : Genuine(e.content)
  <2> SUFFICES ASSUME NEW e \in sealed PROVE Genuine(e.content)
    OBVIOUS
  <2>1. e.content.ct \in Ciphertexts
    BY DEF Ciphertexts
  <2>2. e.content = Seal(e.id, e.address, e.pass)
    <3>1. e = Entry(e.id, e.address, e.pass)
      BY <1>2 DEF SealedOK
    <3>2. Entry(e.id, e.address, e.pass).content = Seal(e.id, e.address, e.pass)
      BY EntryIsWhole
    <3> QED
      BY <3>1, <3>2
  <2> QED
    BY <2>1, <2>2, FieldsOfSeal DEF Genuine
<1>5. backup = Absent \/ \E e \in sealed : backup = e.content
  BY DEF Init, Entries
<1> QED
  BY <1>1, <1>2, <1>3, <1>4, <1>5 DEF XInv, Contents

(* A step that brings no new content to the file, and seals and reads      *)
(* nothing, keeps it.                                                      *)
LEMMA NothingNewKeeps ==
    ASSUME XInv, TInv', sealed' = sealed, loaded' \subseteq loaded, backup' = backup,
           survivors' \subseteq Contents,
           \A q \in Process : Writing(q)' => temp'[q].data \in Contents
    PROVE  XInv'
<1>1. Contents' \subseteq Contents
  BY DEF Contents
<1>2. \A c : Genuine(c) => Genuine(c)'
  BY DEF Genuine, Ciphertexts
<1>3. \A l : ReadOK(l) => ReadOK(l)'
  BY <1>2 DEF ReadOK
<1> QED
  BY <1>1, <1>2, <1>3 DEF XInv, SealedOK

(* A step that leaves the files alone, and seals and reads nothing.        *)
LEMMA NoFileStepKeeps ==
    ASSUME XInv, TInv', sealed' = sealed, loaded' \subseteq loaded, backup' = backup,
           UNCHANGED fileVars
    PROVE  XInv'
<1>1. survivors' \subseteq Contents /\ \A q \in Process : Writing(q)' => temp'[q].data \in Contents
  BY DEF fileVars, Contents, Writing
<1> QED
  BY <1>1, NothingNewKeeps

(* keygen seals an entry of its own, and what was genuine stays so.        *)
LEMMA GenerateKeeps ==
    ASSUME XInv, TInv', NEW q \in Process, NEW address, Generate(q, address)
    PROVE  XInv'
<1> PICK new : new = Entry(Fresh, address, job[q].pass)
  OBVIOUS
<1>1. /\ sealed' = sealed \cup {new} /\ loaded' = loaded /\ backup' = backup
      /\ survivors' = survivors
  BY DEF Generate, Make
<1>2. new.content = Seal(Fresh, address, job[q].pass) /\ new = Entry(new.id, new.address, new.pass)
  BY DEF Entry
<1>3. temp'[q].data = new.content /\ \A p \in Process : p # q => temp'[p] = temp[p]
  BY <1>2 DEF Generate, Make, XInv, TInv, FileInv
<1>4. new.content = [f \in Fields |-> new.content[f]]
  BY <1>2, FieldsOfSeal
<1>5. \A c : Genuine(c) => Genuine(c)'
  BY <1>1 DEF Genuine, Ciphertexts
<1>6. Genuine(new.content)'
  BY <1>1, <1>4 DEF Genuine, Ciphertexts
<1>7. SealedOK'
  BY <1>1, <1>2 DEF XInv, SealedOK
<1>8. \A c \in Contents' : c \in Contents \/ c = new.content
  BY <1>1, <1>3 DEF Contents, Writing
<1>9. \A l \in loaded' : ReadOK(l)'
  BY <1>1, <1>5 DEF XInv, ReadOK
<1> QED
  BY <1>5, <1>6, <1>7, <1>8, <1>9 DEF XInv

(* load returns what the file it read opens to.                            *)
LEMMA ReadKeeps ==
    ASSUME XInv, TInv', NEW q \in Process, Read(q)
    PROVE  XInv'
<1>1. sealed' = sealed /\ backup' = backup /\ survivors' = survivors /\ temp' = temp
  BY DEF Read, fileVars
<1>2. \A c : Genuine(c) => Genuine(c)'
  BY <1>1 DEF Genuine, Ciphertexts
<1>3. Contents' = Contents
  BY <1>1 DEF Contents, Writing
<1>4. Genuine(file)
  BY DEF XInv, TInv, FileInv, FileTypeOK, Contents
<1>5. \A l \in loaded' : l \in loaded \/ (l.content = file /\ l.result = Opened(file, l.pass))
  BY DEF Read
<1>6. \A l \in loaded' : ReadOK(l)'
  BY <1>2, <1>4, <1>5 DEF XInv, ReadOK
<1> QED
  BY <1>1, <1>2, <1>3, <1>6 DEF XInv, SealedOK

(* Damage to one field leaves a ciphertext that save made, or an altered   *)
(* one.                                                                    *)
LEMMA DamageKeeps ==
    ASSUME XInv, TInv', NEW f \in Fields, NEW x \in Odd(f) \cup {c[f] : c \in Entries},
           Damage(f, x)
    PROVE  XInv'
<1>1. /\ sealed' = sealed /\ backup' = backup /\ loaded' = loaded /\ temp' = temp
      /\ survivors' = {file'}
  BY DEF Damage, history
<1>2. \A c : Genuine(c) => Genuine(c)'
  BY <1>1 DEF Genuine, Ciphertexts
<1>3. file = [y \in Fields |-> file[y]] /\ file.ct \in Ciphertexts
  BY DEF Damage, XInv, TInv, FileInv, FileTypeOK, Contents, Genuine
<1>4. DOMAIN file = Fields
  BY <1>3
<1>5. file' = [y \in Fields |-> IF y = f THEN x ELSE file[y]]
  BY <1>4 DEF Damage
<1>6. file' = [y \in Fields |-> file'[y]]
  BY <1>5
<1>7. file'.ct \in Ciphertexts
  <2>1. f = "ct" => x \in Ciphertexts
    BY DEF Ciphertexts, Entries
  <2>2. file'["ct"] = IF "ct" = f THEN x ELSE file["ct"]
    BY <1>5 DEF Fields
  <2> QED
    BY <1>3, <2>1, <2>2
<1> PICK d : d = file'
  OBVIOUS
<1>8. Genuine(d)'
  BY <1>1, <1>6, <1>7 DEF Genuine, Ciphertexts
<1>9. \A c \in Contents' : c \in Contents \/ c = d
  BY <1>1 DEF Contents, Writing
<1> QED
  BY <1>1, <1>2, <1>8, <1>9 DEF XInv, SealedOK, ReadOK

(* and every step keeps it.                                                *)
LEMMA ExactStep == XInv /\ [Next]_vars => XInv'
<1> SUFFICES ASSUME XInv, [Next]_vars PROVE XInv'
  OBVIOUS
<1>0. TInv' /\ DOMAIN temp = Process /\ file \in survivors
  BY TypeStep DEF XInv, TInv, FileInv, FileTypeOK
<1>1. CASE UNCHANGED vars
  BY <1>0, <1>1, NoFileStepKeeps DEF vars, history
<1>2. ASSUME NEW q \in Process,
             \/ \E pass, force, command : Start(q, command, force, pass)
             \/ KeygenRefuses(q) \/ Look(q) \/ Stat(q) \/ Expose
      PROVE  XInv'
  BY <1>0, <1>2, NoFileStepKeeps DEF Start, KeygenRefuses, Look, Stat, Expose, history
<1>3. ASSUME NEW q \in Process, Restore(q) PROVE XInv'
  <2>1. /\ UNCHANGED <<sealed, loaded, backup, survivors>> /\ temp'[q].data = backup
        /\ \A p \in Process : p # q => temp'[p] = temp[p]
    BY <1>0, <1>3 DEF Restore, Make, history
  <2>2. \A p \in Process : Writing(p)' => temp'[p].data \in Contents
    BY <2>1 DEF Contents, Writing
  <2> QED
    BY <1>0, <2>1, <2>2, NothingNewKeeps DEF Contents
<1>4. ASSUME NEW q \in Process, WritesOn(q) \/ Clears(q) PROVE XInv'
  <2>1. /\ UNCHANGED <<sealed, loaded, backup>> /\ survivors' \subseteq survivors \cup {Absent}
        /\ \A p \in Process : p # q => temp'[p] = temp[p]
    BY <1>0, <1>4 DEF WritesOn, Clears, WriteOut, Sync, Clear, history
  <2>2. Writing(q) /\ DOMAIN temp[q] = {"at", "data", "synced"}
    <3>1. Writing(q)
      BY <1>4 DEF WritesOn, Clears, WriteOut, Sync, Clear, Has, Writing, NoPart
    <3> QED
      BY <3>1 DEF XInv, TInv, FileInv, PartOK
  <2>3. temp'[q].data = temp[q].data
    BY <1>0, <1>4, <2>2 DEF WritesOn, Clears, WriteOut, Sync, Clear
  <2>4. \A p \in Process : Writing(p)' => temp'[p].data \in Contents
    BY <2>1, <2>2, <2>3 DEF Contents, Writing
  <2> QED
    BY <1>0, <2>1, <2>4, NothingNewKeeps DEF Contents
<1>5. ASSUME NEW q \in Process, Replaces(q) PROVE XInv'
  <2>1. Writing(q) /\ temp[q].synced
    <3>1. Writing(q)
      BY <1>5 DEF Replaces, Replace, Has, Writing, NoPart
    <3> QED
      BY <1>5, <3>1 DEF Replaces, Replace, Has, XInv, TInv, FileInv, PartOK
  <2>2. /\ UNCHANGED <<sealed, loaded, backup>> /\ survivors' = survivors \cup {temp[q].data}
        /\ temp'[q] = NoPart /\ \A p \in Process : p # q => temp'[p] = temp[p]
    BY <1>0, <1>5, <2>1 DEF Replaces, Replace
  <2>3. survivors' \subseteq Contents
    BY <2>1, <2>2 DEF Contents
  <2>4. \A p \in Process : Writing(p)' => temp'[p].data \in Contents
    BY <2>2 DEF Contents, Writing
  <2> QED
    BY <1>0, <2>2, <2>3, <2>4, NothingNewKeeps
<1>6. ASSUME NEW q \in Process, WriteFails(q) \/ Killed(q) PROVE XInv'
  <2>1. /\ UNCHANGED <<sealed, loaded, backup, survivors>>
        /\ temp'[q] = NoPart /\ \A p \in Process : p # q => temp'[p] = temp[p]
    BY <1>0, <1>6 DEF WriteFails, Killed, Fail, Die, history
  <2>2. \A p \in Process : Writing(p)' => temp'[p].data \in Contents
    BY <2>1 DEF Contents, Writing
  <2> QED
    BY <1>0, <2>1, <2>2, NothingNewKeeps DEF Contents
<1>7. CASE PowerFails \/ Settles
  <2>1. /\ UNCHANGED <<sealed, loaded, backup>> /\ survivors' \subseteq survivors
        /\ \A p \in Process : temp'[p] \in {temp[p], NoPart}
    BY <1>0, <1>7 DEF PowerFails, Settles, PowerLoss, WriteBack, history
  <2>2. \A p \in Process : Writing(p)' => temp'[p].data \in Contents
    BY <2>1 DEF Contents, Writing
  <2> QED
    BY <1>0, <2>1, <2>2, NothingNewKeeps DEF Contents
<1>8. CASE \E f \in Fields : \E x \in Odd(f) \cup {c[f] : c \in Entries} : Damage(f, x)
  BY <1>0, <1>8, DamageKeeps
<1>9. CASE Expose
  BY <1>0, <1>9, NoFileStepKeeps DEF Expose, history
<1>10. ASSUME NEW q \in Process, Read(q) \/ \E address \in Address : Generate(q, address)
       PROVE  XInv'
  BY <1>0, <1>10, ReadKeeps, GenerateKeeps
<1> QED
  BY <1>1, <1>2, <1>3, <1>4, <1>5, <1>6, <1>7, <1>8, <1>9, <1>10 DEF Next

(* load gives back the identity and the address that save was given, under *)
(* the passphrase it was given, from the very file that was written, and   *)
(* nothing from any other file or under any other passphrase ("an attacker *)
(* cannot swap the address or fingerprint", keystore.py:7): for any number *)
(* of processes, keystores and damaged fields, one after the other.        *)
THEOREM LoadsAreExact == Spec => []LoadIsExact
  BY ExactInitial, ExactStep, InvIsExact, PTL DEF Spec
=============================================================================
